---- MODULE Spec2Model ----
(***************************************************************************)
(* A model of yamon: the bounded per-metric history store and the chart    *)
(* renderer (yamon/chart.py), with the callers that feed and read them.    *)
(*                                                                         *)
(* Numbers.  A float of the program is modelled as an integer number of    *)
(* 1/One units (One units are the float 1.0), and arithmetic is exact.    *)
(* One is a power of two, so the floats of the bounded value sets are      *)
(* exact and Python's float arithmetic truncates to the same integers.     *)
(*                                                                         *)
(* Text.  A rendered text is a sequence of lines, a line a sequence of     *)
(* one-character tokens: "sp" is ' ', "b1".."b7" are the partial blocks,   *)
(* "full" is the solid block, "hash" is '#', "rule" is the vertical rule,  *)
(* "dash" is the horizontal rule, "dark"/"med" are the shade blocks, and   *)
(* "0".."9", ".", "-" are the characters of a formatted number.            *)
(***************************************************************************)
EXTENDS Integers, Sequences, FiniteSets, TLC

VARIABLES
    history,      \* MetricsHistory: metric name -> its series (oldest first)
    max_size,     \* the capacity the history was created with
    log,          \* ghost: metric name -> every value a sample carried for it
    renderer,     \* ChartRenderer: [width, height, use_unicode]
    values,       \* the caller's input list (values / sent_values / bottom_values)
    values2,      \* the caller's second list (recv_values / middle_values)
    values3,      \* the caller's third list (top_values)
    call,         \* the last render call: [op, min_value, max_value, show_y_axis, width]
    out,          \* what the last render call returned: [err, lines]
    memo,         \* ghost: one remembered earlier call with its result: [call, out, other]
    latest_metrics,   \* api/websocket.py _latest_metrics: None or the sample
    metrics_lock,     \* api/websocket.py _metrics_lock: "free" or the coroutine holding it
    collection_task,  \* api/websocket.py _collection_task: [pc, metrics] of _background_collector
    subscribers,      \* the position of every websocket_metrics connection
    handler,          \* the position of the GET /metrics handler
    loop,             \* the coroutine the event loop is running, "free" between callbacks
    api_history,      \* api/metrics.py history: the store GET /metrics feeds
    stores,           \* ghost: how many samples were stored in the cell (it saturates)
    tasks_alive,      \* ghost: how many _background_collector tasks are alive
    connections,      \* every websocket_metrics connection, await by await
    response,         \* what the last GET /history returned
    metrics_collector,  \* MetricsCollector: its last counters, last time, Apple collector
    collected         \* what the last collect() read and returned

histVars == <<history, max_size, log>>
chartVars == <<renderer, values, values2, values3, call, out, memo>>
srvVars == <<latest_metrics, metrics_lock, collection_task, subscribers, handler, loop,
             api_history, stores, tasks_alive>>
feedVars == <<connections, response>>
colVars == <<metrics_collector, collected>>
vars == <<history, max_size, log, renderer, values, values2, values3, call, out, memo,
          latest_metrics, metrics_lock, collection_task, subscribers, handler, loop,
          api_history, stores, tasks_alive, connections, response,
          metrics_collector, collected>>

----------------------------------------------------------------------------
(* The float 1.0, in units of the model (halves) *)
One == 2

(* Bounds of the model *)
MaxCap == 3
MaxSamples == 4
MaxWidth == 3
MaxHeight == 3
MaxLen == 3
SparkLen == 4
ChartLen == 2
MaxVal == 3
SplitHeight == 4
MaxSubs == 2
ServerCap == 2
MaxBytes == 2
MaxTime == 2
MaxStores == 2
MaxCores == 8

----------------------------------------------------------------------------
(* Generic helpers *)

Min2(a, b) == IF a <= b THEN a ELSE b
Max2(a, b) == IF a >= b THEN a ELSE b
Abs(a) == IF a < 0 THEN 0 - a ELSE a

RECURSIVE SeqMin(_)
SeqMin(s) == IF Len(s) = 1 THEN s[1] ELSE Min2(s[1], SeqMin(Tail(s)))

RECURSIVE SeqMax(_)
SeqMax(s) == IF Len(s) = 1 THEN s[1] ELSE Max2(s[1], SeqMax(Tail(s)))

Repeat(x, n) == [i \in 1..n |-> x]

SeqsUpTo(S, n) == UNION {[1..k -> S] : k \in 0..n}

\* Python's s[-n:] for n >= 1: the last n elements, or all of s when it is shorter
LastN(s, n) == IF Len(s) > n THEN SubSeq(s, Len(s) - n + 1, Len(s)) ELSE s

\* Python's int(a / b) for b # 0: the quotient truncated toward zero
TruncDiv(a, b) ==
    IF (a >= 0) = (b > 0) THEN Abs(a) \div Abs(b) ELSE 0 - (Abs(a) \div Abs(b))

\* An Optional[float]: << >> is None, <<v>> is the value v
None == << >>
Some(v) == <<v>>
IsNone(o) == o = << >>
Opt(S) == {None} \cup {Some(v) : v \in S}

----------------------------------------------------------------------------
(* Number formatting: f"{x:.1f}" *)

DigitTok == <<"0", "1", "2", "3", "4", "5", "6", "7", "8", "9">>

RECURSIVE Digits(_)
Digits(n) == IF n < 10 THEN <<DigitTok[n + 1]>>
             ELSE Digits(n \div 10) \o <<DigitTok[(n % 10) + 1]>>

\* num / den (den > 0) rounded to tenths, ties to even
Tenths(num, den) ==
    LET a == 10 * Abs(num)
        q == a \div den
        r == a % den
    IN  IF 2 * r > den \/ (2 * r = den /\ q % 2 = 1) THEN q + 1 ELSE q

\* f"{x:.1f}" of x = num / den
FmtRat(num, den) ==
    LET t == Tenths(num, den)
    IN  (IF num < 0 THEN <<"-">> ELSE << >>)
            \o Digits(t \div 10) \o <<".">> \o <<DigitTok[(t % 10) + 1]>>

\* f"{x:.1f}" of a float of the model
Fmt1(n) == FmtRat(n, One)

\* s.rjust(w)
RJust(s, w) == IF Len(s) >= w THEN s ELSE Repeat("sp", w - Len(s)) \o s

----------------------------------------------------------------------------
(* Results of a call: a text, or the exception Python raises *)

Text(lines) == [err |-> "none", lines |-> lines]
Raise(e) == [err |-> e, lines |-> << >>]
NoOut == [err |-> "nocall", lines |-> << >>]

----------------------------------------------------------------------------
(* The metrics sample: SystemMetrics, as MetricsCollector.collect builds it *)

RequiredMetrics == {"cpu_percent", "memory_percent", "network_sent_rate", "network_recv_rate"}
OptionalMetrics == {"cpu_power", "gpu_power", "ane_power", "system_power", "gpu_usage", "ane_usage"}

\* The series GET /history returns
Metrics == RequiredMetrics \cup OptionalMetrics

\* A sample: every required field carries a value; the Apple Silicon fields are
\* all None when there is no apple_metrics, and all set when there is one
SystemMetrics(cpu, apple) ==
    [m \in Metrics |->
        IF m = "cpu_percent" THEN Some(cpu)
        ELSE IF m = "memory_percent" THEN Some(50)
        ELSE IF m \in RequiredMetrics THEN Some(0)
        ELSE IF IsNone(apple) THEN None
        ELSE IF m = "cpu_power" THEN Some(apple[1])
        ELSE Some(0)]

SampleVals == {10 * k : k \in 1..MaxSamples}
Samples == {SystemMetrics(c, a) : c \in SampleVals, a \in Opt({5})}

----------------------------------------------------------------------------
(* The history store: MetricsHistory(max_size), one bounded series a metric *)

MetricsHistoryNew == [m \in Metrics |-> << >>]

\* a buggy add for the check of C1: the series is full and drops the new value
SeriesAddKeepOldest(s, v, cap) == IF Len(s) >= cap THEN s ELSE Append(s, v)

\* append, then evict the oldest until the length is the capacity
SeriesAdd(s, v, cap) == LastN(Append(s, v), cap)

\* a buggy add for the check of C2: an absent field is stored as a zero
AddMetricsPlaceholder(h, sample, cap) ==
    [m \in Metrics |->
        IF IsNone(sample[m]) THEN SeriesAdd(h[m], 0, cap)
        ELSE SeriesAdd(h[m], sample[m][1], cap)]

\* add_metrics: each field that carries a value is appended to its series
AddMetrics(h, sample, cap) ==
    [m \in Metrics |->
        IF IsNone(sample[m]) THEN h[m] ELSE SeriesAdd(h[m], sample[m][1], cap)]

GetValues(h, m) == h[m]

\* GET /history: the values of every series
GetHistory(h) == [m \in Metrics |-> GetValues(h, m)]

\* ghost: what the samples carried, per metric
LogSample(l, sample) ==
    [m \in Metrics |-> IF IsNone(sample[m]) THEN l[m] ELSE Append(l[m], sample[m][1])]

\* the web service before its first connection: no task, no sample, no request
NoTask == [pc |-> "none", metrics |-> None]
NoCollector == [_last_network_sent |-> 0, _last_network_recv |-> 0,
                _last_time |-> None, _apple_collector |-> None]
NotCollected == [taken |-> FALSE]
CollectorIdle ==
    /\ metrics_collector = NoCollector
    /\ collected = NotCollected

NoResponse == [sent |-> FALSE]
ServiceIdle ==
    /\ latest_metrics = None
    /\ metrics_lock = "free"
    /\ collection_task = NoTask
    /\ subscribers = << >>
    /\ handler = "idle"
    /\ loop = "free"
    /\ api_history = MetricsHistoryNew
    /\ stores = 0
    /\ tasks_alive = 0
    /\ connections = << >>
    /\ response = NoResponse

ServerIdle ==
    /\ CollectorIdle
    /\ ServiceIdle

NoRenderer == [width |-> 0, height |-> 0, use_unicode |-> TRUE]
NoCall == [op |-> "none", min_value |-> None, max_value |-> None,
           show_y_axis |-> TRUE, width |-> None]

NoMemo == [call |-> NoCall, out |-> NoOut, other |-> FALSE]

ChartIdle ==
    /\ renderer = NoRenderer
    /\ values = << >>
    /\ values2 = << >>
    /\ values3 = << >>
    /\ call = NoCall
    /\ out = NoOut
    /\ memo = NoMemo

InitHistory ==
    /\ max_size \in 1..MaxCap
    /\ history = MetricsHistoryNew
    /\ log = [m \in Metrics |-> << >>]
    /\ ChartIdle
    /\ ServerIdle

\* YamonApp.update_metrics: one tick collects a sample and adds it to the history
UpdateMetrics ==
    /\ Len(log["cpu_percent"]) < MaxSamples
    /\ \E metrics \in Samples :
          /\ history' = AddMetrics(history, metrics, max_size)
          /\ log' = LogSample(log, metrics)
    /\ UNCHANGED <<max_size, chartVars, srvVars, colVars, feedVars>>

NextHistory == UpdateMetrics

SpecHistory == InitHistory /\ [][NextHistory]_vars

----------------------------------------------------------------------------
(* C1: a series holds the min(N, C) most recent of the N values appended to
   it, in arrival order, and never more than C values; capacity 3 and appends
   10, 20, 30, 40 give [20, 30, 40]. *)
C1_MostRecent ==
    \A m \in Metrics :
        LET got == GetHistory(history)[m]
            n == Len(log[m])
            k == Min2(n, max_size)
        IN  /\ Len(got) = k
            /\ Len(got) <= max_size
            /\ \A i \in 1..k : got[i] = log[m][n - k + i]

C1_Witness ==
    /\ max_size = 3
    /\ log["cpu_percent"] = <<10, 20, 30, 40>>
    /\ GetValues(history, "cpu_percent") = <<20, 30, 40>>

(* C2: a sample with no value for a metric leaves that metric's series as it
   was; a metric that carries a value grows by one element before eviction;
   the length of a series is min(capacity, number of samples that carried
   the metric). *)
C2_Step ==
    \A m \in Metrics :
        IF log'[m] = log[m]
        THEN history'[m] = history[m]
        ELSE /\ Len(history'[m]) = Min2(Len(history[m]) + 1, max_size)
             /\ history'[m][Len(history'[m])] = log'[m][Len(log'[m])]

C2_AbsentUnchanged ==
    /\ [][C2_Step]_vars
    /\ [](\A m \in Metrics : Len(history[m]) = Min2(max_size, Len(log[m])))

C2_Witness ==
    /\ Len(log["cpu_percent"]) = 3
    /\ Len(log["cpu_power"]) = 1
    /\ Len(history["cpu_power"]) = 1
    /\ Len(history["gpu_usage"]) = 1
    /\ Len(history["cpu_percent"]) = 2

----------------------------------------------------------------------------
(* ChartRenderer *)

BLOCKS == <<"sp", "b1", "b2", "b3", "b4", "b5", "b6", "b7", "full">>

\* ChartRenderer(width, height, use_unicode)
ChartRenderer(width, height, use_unicode) ==
    [width |-> width, height |-> height, use_unicode |-> use_unicode]

\* "x or 0" of an Optional[float]
OrZero(o) == IF IsNone(o) THEN 0 ELSE o[1]

\* a buggy range for the checks: the zero range is not replaced
ValueRangeNoGuard(min_value, max_value) == max_value - min_value

\* value_range = max_value - min_value, and 1 when that is zero
ValueRange(min_value, max_value) ==
    IF max_value - min_value = 0 THEN One ELSE max_value - min_value

\* _get_block_char(bar_height, current_row), rows counted from the top, from 0
GetBlockChar(r, bar_height, current_row) ==
    IF r.use_unicode
    THEN LET row_in_bar == current_row - (r.height - bar_height)
         IN  IF row_in_bar < 0 THEN "sp"
             ELSE IF bar_height >= r.height THEN "full"
             ELSE IF row_in_bar = bar_height - 1 /\ bar_height < r.height
                  THEN LET fraction8 == IF bar_height < r.height
                                        THEN (bar_height % 1) * 8 ELSE 8
                           block_idx == Min2(fraction8, 8)
                       IN  BLOCKS[block_idx + 1]
             ELSE "full"
    ELSE "hash"

\* scaled: int(((value - min_value) / value_range) * height) of every value
Scaled(r, vals, min_value, value_range) ==
    [i \in 1..Len(vals) |-> TruncDiv((vals[i] - min_value) * r.height, value_range)]

\* a buggy window for the check of C5: the oldest values are kept
OldestScaled(r, scaled) ==
    LET first == IF Len(scaled) > r.width THEN SubSeq(scaled, 1, r.width) ELSE scaled
        pad == r.width - Len(first)
    IN  [col \in 1..r.width |-> IF col <= pad THEN 0 ELSE first[col - pad]]

\* latest_scaled: the last width entries, padded on the left; a padding entry
\* is no int and draws as bar height 0
LatestScaled(r, scaled) ==
    LET latest == LastN(scaled, r.width)
        pad == r.width - Len(latest)
    IN  [col \in 1..r.width |-> IF col <= pad THEN 0 ELSE latest[col - pad]]

\* chart_lines: row 0 is the top
ChartLines(r, bars) ==
    [row1 \in 1..r.height |->
        [col \in 1..r.width |->
            IF (row1 - 1) >= r.height - bars[col]
            THEN GetBlockChar(r, bars[col], row1 - 1)
            ELSE "sp"]]

\* the lines with the Y-axis labels added
WithLabels(chart_lines, max_value, min_value) ==
    LET max_width == Max2(Len(Fmt1(max_value)), Len(Fmt1(min_value)))
    IN  <<RJust(Fmt1(max_value), max_width) \o <<"sp", "rule">>>>
            \o [i \in 1..Len(chart_lines) |->
                   Repeat("sp", max_width) \o <<"sp", "rule">> \o chart_lines[i]]
            \o <<RJust(Fmt1(min_value), max_width) \o <<"sp", "rule">>>>

\* the branch of render for an empty input
RenderEmpty(r, mn, mx, show_y_axis) ==
    LET empty_chart == Repeat("sp", r.width)
    IN  IF show_y_axis
        THEN Text(<<Fmt1(OrZero(mx))>> \o Repeat(empty_chart, r.height)
                      \o <<Fmt1(OrZero(mn))>>)
        ELSE Text(<<empty_chart>>)

\* min_value / max_value as given, or derived from the values
MinValue(vals, mn) == IF IsNone(mn) THEN SeqMin(vals) ELSE mn[1]
MaxValue(vals, mx) == IF IsNone(mx) THEN SeqMax(vals) ELSE mx[1]

\* the bar height of every column of a non-empty input (value_range # 0)
RenderBars(r, vals, mn, mx) ==
    LET min_value == MinValue(vals, mn)
        value_range == ValueRange(min_value, MaxValue(vals, mx))
    IN  LatestScaled(r, Scaled(r, vals, min_value, value_range))

\* render(values, min_value, max_value, show_y_axis)
Render(r, vals, mn, mx, show_y_axis) ==
    IF vals = << >> THEN RenderEmpty(r, mn, mx, show_y_axis)
    ELSE LET min_value == MinValue(vals, mn)
             max_value == MaxValue(vals, mx)
         IN  IF ValueRange(min_value, max_value) = 0 THEN Raise("ZeroDivisionError")
             ELSE LET chart_lines == ChartLines(r, RenderBars(r, vals, mn, mx))
                  IN  IF show_y_axis
                      THEN Text(WithLabels(chart_lines, max_value, min_value))
                      ELSE Text(chart_lines)

----------------------------------------------------------------------------
(* render_sparkline *)

spark_chars == <<"b1", "b2", "b3", "b4", "b5", "b6", "b7", "full">>

\* Python's list[i] for an index counted from 0: negative indices count from
\* the end, an index outside the list raises IndexError
InRange(list, i) == i < Len(list) /\ i >= 0 - Len(list)
PyIndex(list, i) == IF i >= 0 THEN list[i + 1] ELSE list[Len(list) + i + 1]

\* the width argument, or self.width when it is None
WidthArg(r, w) == IF IsNone(w) THEN r.width ELSE w[1]

\* a buggy minimum for the check of C10: the minimum of the whole input
SparkMinGlobal(vals, latest) == SeqMin(vals)

\* min_val = min(latest) if latest else 0
SparkMin(vals, latest) == IF latest # << >> THEN SeqMin(latest) ELSE 0

\* max_val = max(latest) if latest else 100
SparkMax(vals, latest) == IF latest # << >> THEN SeqMax(latest) ELSE 100 * One

\* char_idx = min(int(normalized * 8), 7)
SparkIdx(value, min_val, range_val) == Min2(TruncDiv((value - min_val) * 8, range_val), 7)

\* render_sparkline(values, width)
RenderSparkline(r, vals, w) ==
    LET width == WidthArg(r, w)
    IN  IF vals = << >> THEN Text(<<Repeat("dash", width)>>)
        ELSE LET latest == LastN(vals, width)
                 min_val == SparkMin(vals, latest)
                 max_val == SparkMax(vals, latest)
                 range_val == IF max_val # min_val THEN max_val - min_val ELSE One
                 idx == [i \in 1..Len(latest) |-> SparkIdx(latest[i], min_val, range_val)]
             IN  IF \E i \in 1..Len(latest) : ~InRange(spark_chars, idx[i])
                 THEN Raise("IndexError")
                 ELSE Text(<<[i \in 1..Len(latest) |-> PyIndex(spark_chars, idx[i])]>>)

----------------------------------------------------------------------------
(* render_network_split *)

\* 1024 * 1024
MiB == 1048576

\* The float 1.0 of an MB/s rate.  The rates of the split chart are kept in
\* units of 1/MiB MB/s, so that v / (1024 * 1024) is exact for every whole
\* byte rate v, as it is in floats
MbOne == MiB

\* v / (1024 * 1024) of every value: byte rates to MB/s, in units of 1/MbOne
ToMb(vals) == [i \in 1..Len(vals) |-> vals[i] \div (MiB \div MbOne)]

\* a buggy padding for the check of C7: a short list is left short
NoPad(latest, width) == latest

\* [0.0] * (width - len(latest)) + latest when latest is shorter than width
PadZeros(latest, width) ==
    IF Len(latest) < width THEN Repeat(0, width - Len(latest)) \o latest ELSE latest

\* the labelled lines of the split chart; the maxima are in tenths of a unit.
\* (Where overall_max * 0.1 would be a tie of the rounding to one decimal, the
\* float product is not the tie and Python rounds it either way; rates that
\* are 0, a few bytes/s, half an MB/s or whole MB/s, as the bounded inputs are,
\* have no such tie.)
SplitLabels(chart_lines, half_height, sent_max10, recv_max10) ==
    LET sent_max_str == FmtRat(sent_max10, 10 * MbOne)
        recv_max_str == FmtRat(recv_max10, 10 * MbOne)
        max_width == Max2(Len(sent_max_str), Len(recv_max_str))
        lead == Repeat("sp", max_width) \o <<"sp", "rule">>
        upper == SubSeq(chart_lines, 1, Min2(half_height, Len(chart_lines)))
        lower == SubSeq(chart_lines, half_height + 2, Len(chart_lines))
    IN  <<RJust(sent_max_str, max_width) \o <<"sp", "rule">>>>
            \o [i \in 1..Len(upper) |-> lead \o upper[i]]
            \o <<lead \o chart_lines[half_height + 1]>>
            \o [i \in 1..Len(lower) |-> lead \o lower[i]]
            \o <<RJust(recv_max_str, max_width) \o <<"sp", "rule">>>>

\* a scale for the check of C13: the combined maximum has no floor of 1 MB/s
OverallMaxNoFloor(sent_own, recv_own) == Max2(sent_own, recv_own)

\* overall_max = max(sent_max, recv_max, 1)
OverallMax(sent_own, recv_own) == Max2(Max2(sent_own, recv_own), MbOne)

\* a cell for the check of C12: the download bar hangs from the separator
BottomHalfCellFromTop(row, bar_height, half_height) ==
    IF row < bar_height THEN "full" ELSE "sp"

\* the cell of the upload half at row (0 = top row of the half)
TopHalfCell(row, bar_height) == IF row < bar_height THEN "full" ELSE "sp"

\* the cell of the download half at row (0 = the row under the separator)
BottomHalfCell(row, bar_height, half_height) ==
    IF row >= half_height - bar_height THEN "full" ELSE "sp"

\* render_network_split(sent_values, recv_values, width, show_y_axis)
RenderNetworkSplit(r, sent_values, recv_values, w, show_y_axis) ==
    LET width == WidthArg(r, w)
    IN  IF sent_values = << >> /\ recv_values = << >>
        THEN LET empty_chart == Repeat("sp", width)
             IN  IF show_y_axis
                 THEN Text(<<Fmt1(0)>> \o Repeat(empty_chart, r.height) \o <<Fmt1(0)>>)
                 ELSE Text(<<empty_chart>>)
        ELSE LET sent_latest == PadZeros(LastN(ToMb(sent_values), width), width)
                 recv_latest == PadZeros(LastN(ToMb(recv_values), width), width)
                 sent_own == IF sent_latest # << >> THEN SeqMax(sent_latest) ELSE MbOne
                 recv_own == IF recv_latest # << >> THEN SeqMax(recv_latest) ELSE MbOne
                 overall_max == OverallMax(sent_own, recv_own)
                 \* max(own, overall_max * 0.1), in tenths of a unit
                 sent_max10 == Max2(10 * sent_own, overall_max)
                 recv_max10 == Max2(10 * recv_own, overall_max)
                 half_height == r.height \div 2
                 sent_scaled == [i \in 1..Len(sent_latest) |->
                                    IF sent_max10 > 0
                                    THEN TruncDiv(sent_latest[i] * 10 * half_height, sent_max10)
                                    ELSE 0]
                 recv_scaled == [i \in 1..Len(recv_latest) |->
                                    IF recv_max10 > 0
                                    THEN TruncDiv(recv_latest[i] * 10 * half_height, recv_max10)
                                    ELSE 0]
             IN  IF half_height >= 1 /\ (Len(sent_scaled) < width \/ Len(recv_scaled) < width)
                 THEN Raise("IndexError")
                 ELSE LET top_half == [row1 \in 1..half_height |->
                                          [col \in 1..width |->
                                              TopHalfCell(row1 - 1, sent_scaled[col])]]
                          bottom_half == [row1 \in 1..half_height |->
                                             [col \in 1..width |->
                                                 BottomHalfCell(row1 - 1, recv_scaled[col],
                                                                half_height)]]
                          chart_lines == top_half \o <<Repeat("dash", width)>> \o bottom_half
                      IN  IF show_y_axis
                          THEN Text(SplitLabels(chart_lines, half_height,
                                                sent_max10, recv_max10))
                          ELSE Text(chart_lines)

----------------------------------------------------------------------------
(* render_stacked *)

\* list[i] if i < len(list) else 0, for an index counted from 1
AtOrZero(list, i) == IF i <= Len(list) THEN list[i] ELSE 0

\* all_values: the sum of the three layers at every index
AllValues(bottom_values, middle_values, top_values) ==
    LET max_len == Max2(Len(bottom_values), Max2(Len(middle_values), Len(top_values)))
    IN  [i \in 1..max_len |->
            AtOrZero(bottom_values, i) + AtOrZero(middle_values, i) + AtOrZero(top_values, i)]

\* a cell for the check of C14: the top layer's glyph is drawn first
StackedCellTopFirst(row_from_bottom, bottom_h, middle_h, top_h) ==
    IF row_from_bottom < top_h THEN "med"
    ELSE IF row_from_bottom < top_h + middle_h THEN "dark"
    ELSE IF row_from_bottom < top_h + middle_h + bottom_h THEN "full"
    ELSE "sp"

\* the cell of a column at row_from_bottom: bottom layer, middle, top, blank
StackedCell(row_from_bottom, bottom_h, middle_h, top_h) ==
    IF row_from_bottom < bottom_h THEN "full"
    ELSE IF row_from_bottom < bottom_h + middle_h THEN "dark"
    ELSE IF row_from_bottom < bottom_h + middle_h + top_h THEN "med"
    ELSE "sp"

\* render_stacked(bottom_values, middle_values, top_values, width, min_value,
\* max_value, show_y_axis)
RenderStacked(r, bottom_values, middle_values, top_values, w, mn, mx, show_y_axis) ==
    LET width == WidthArg(r, w)
        all_values == AllValues(bottom_values, middle_values, top_values)
    IN  IF all_values = << >>
        THEN LET empty_chart == Repeat("sp", width)
             IN  IF show_y_axis
                 THEN Text(<<Fmt1(OrZero(mx))>> \o Repeat(empty_chart, r.height)
                               \o <<Fmt1(OrZero(mn))>>)
                 ELSE Text(<<empty_chart>>)
        ELSE LET bottom_latest == PadZeros(LastN(bottom_values, width), width)
                 middle_latest == PadZeros(LastN(middle_values, width), width)
                 top_latest == PadZeros(LastN(top_values, width), width)
                 all_latest == LastN(all_values, width)
                 min_value == IF IsNone(mn) THEN 0 ELSE mn[1]
                 max_value == IF IsNone(mx)
                              THEN (IF all_latest # << >> THEN SeqMax(all_latest) ELSE One)
                              ELSE mx[1]
                 value_range == ValueRange(min_value, max_value)
             IN  IF value_range = 0 THEN Raise("ZeroDivisionError")
                 ELSE LET bottom_scaled == [i \in 1..Len(bottom_latest) |->
                                TruncDiv(bottom_latest[i] * r.height, value_range)]
                          middle_scaled == [i \in 1..Len(middle_latest) |->
                                TruncDiv(middle_latest[i] * r.height, value_range)]
                          top_scaled == [i \in 1..Len(top_latest) |->
                                TruncDiv(top_latest[i] * r.height, value_range)]
                      IN  IF \/ Len(bottom_scaled) < width
                             \/ Len(middle_scaled) < width
                             \/ Len(top_scaled) < width
                          THEN Raise("IndexError")
                          ELSE LET chart_lines ==
                                     [row1 \in 1..r.height |->
                                        [col \in 1..width |->
                                           LET bottom_h == bottom_scaled[col]
                                               middle_h == middle_scaled[col]
                                               top_h == top_scaled[col]
                                               row_from_bottom == r.height - 1 - (row1 - 1)
                                           IN  StackedCell(row_from_bottom, bottom_h,
                                                           middle_h, top_h)]]
                               IN  IF show_y_axis
                                   THEN Text(WithLabels(chart_lines, max_value, min_value))
                                   ELSE Text(chart_lines)

----------------------------------------------------------------------------
(* Calls of render on bounded inputs *)

\* a layer argument: None (no list given) or the list, as an Optional
LayerList(o) == IF IsNone(o) THEN << >> ELSE o[1]

\* render_stacked on layers any of which may be None: the lengths are taken
\* under "if x else 0", but the loop that sums the layers takes len(x) of each
RenderStackedLayers(r, bottom, middle, top, w, mn, mx, show_y_axis) ==
    LET max_len == Max2(Len(LayerList(bottom)),
                        Max2(Len(LayerList(middle)), Len(LayerList(top))))
    IN  IF max_len > 0 /\ (IsNone(bottom) \/ IsNone(middle) \/ IsNone(top))
        THEN Raise("TypeError")
        ELSE RenderStacked(r, LayerList(bottom), LayerList(middle), LayerList(top),
                           w, mn, mx, show_y_axis)

Renderers ==
    {ChartRenderer(w, h, u) : w \in 1..MaxWidth, h \in 1..MaxHeight, u \in BOOLEAN}
Vals == 0..MaxVal
ArgVals == {0, 1, MaxVal}

HistoryIdle ==
    /\ max_size = 1
    /\ history = MetricsHistoryNew
    /\ log = [m \in Metrics |-> << >>]
    /\ ServerIdle

RenderCall(mn, mx, axis) ==
    [op |-> "render", min_value |-> mn, max_value |-> mx, show_y_axis |-> axis,
     width |-> None]

RenderCalls ==
    {RenderCall(mn, mx, axis) : mn \in Opt(ArgVals), mx \in Opt(ArgVals), axis \in BOOLEAN}

\* a renderer, an input and the arguments of the call to come
InitRender ==
    /\ renderer \in Renderers
    /\ values \in SeqsUpTo(Vals, MaxLen)
    /\ values2 = << >>
    /\ values3 = << >>
    /\ call \in RenderCalls
    /\ out = NoOut
    /\ memo = NoMemo
    /\ HistoryIdle

\* the call of render, once
CallRender ==
    /\ out = NoOut
    /\ out' = Render(renderer, values, call.min_value, call.max_value, call.show_y_axis)
    /\ UNCHANGED <<renderer, values, values2, values3, call, memo, histVars, srvVars, colVars, feedVars>>

NextRender == CallRender

SpecRender == InitRender /\ [][NextRender]_vars

----------------------------------------------------------------------------
(* Reading a rendered text *)

BarGlyphs == {"sp", "b1", "b2", "b3", "b4", "b5", "b6", "b7", "full", "hash", "dark", "med"}

HasRule(line) == \E i \in 1..Len(line) : line[i] = "rule"
RulePos(line) == CHOOSE i \in 1..Len(line) : line[i] = "rule" /\ \A k \in 1..(i - 1) : line[k] # "rule"

\* the chart-body portion of a line: what follows the rule of a labelled line,
\* the whole of a line of bar glyphs, nothing of a line that is only a label
BodyOf(line) ==
    IF HasRule(line) THEN SubSeq(line, RulePos(line) + 1, Len(line))
    ELSE IF \A i \in 1..Len(line) : line[i] \in BarGlyphs THEN line
    ELSE << >>

\* the bodies of the lines that have one, top row first
BodyRows(lines) ==
    LET rows == SelectSeq(lines, LAMBDA l : BodyOf(l) # << >>)
    IN  [i \in 1..Len(rows) |-> BodyOf(rows[i])]

\* the lines that are only a label, as the characters of the label
LabelsOf(lines) ==
    LET labs == SelectSeq(lines, LAMBDA l : BodyOf(l) = << >>)
    IN  [i \in 1..Len(labs) |-> SelectSeq(labs[i], LAMBDA c : c \notin {"sp", "rule"})]

Column(rows, j) == [i \in 1..Len(rows) |-> rows[i][j]]
Blank(cells) == \A i \in 1..Len(cells) : cells[i] = "sp"
Filled(cells) == Cardinality({i \in 1..Len(cells) : cells[i] # "sp"})

FloorDiv(a, b) == IF b > 0 THEN a \div b ELSE (0 - a) \div (0 - b)
Clamp(x, lo, hi) == Max2(lo, Min2(x, hi))

RenderDone == call.op = "render" /\ out # NoOut

----------------------------------------------------------------------------
(* C3: for every input length and either value of show_y_axis, render returns
   exactly height lines, and the chart-body portion of every returned line is
   exactly width characters. *)
C3_HeightLinesOfWidth ==
    RenderDone =>
        /\ out.err = "none"
        /\ Len(out.lines) = renderer.height
        /\ \A i \in 1..Len(out.lines) : Len(BodyOf(out.lines[i])) = renderer.width

(* C4: with the smooth glyph set, a column whose value scales to height
   h = floor((value - min) / range * height), clamped to [0, height], is
   non-blank exactly in the bottom h rows, solid below the top row of the bar;
   render([0,25,50,75,100], min=0, max=100, width=5, height=4) has a bottom
   row that is non-blank in columns 1 to 4 (counted from 0). *)
\* the example of the claim, evaluated on its own (it is FALSE: the bottom row
\* of the example is blank in columns 0 to 3)
C4_ExampleBottomRow ==
    LET rows == BodyRows(Render(ChartRenderer(5, 4, TRUE),
                                <<0, 25 * One, 50 * One, 75 * One, 100 * One>>,
                                Some(0), Some(100 * One), FALSE).lines)
    IN  /\ Len(rows) = 4
        /\ \A j \in 2..5 : rows[4][j] # "sp"
        /\ \A j \in 1..5 : Filled(Column(rows, j)) = j - 1

C4_BarInBottomRows ==
    (RenderDone /\ renderer.use_unicode /\ values # << >> /\ out.err = "none") =>
       LET rows == BodyRows(out.lines)
           n == Len(values)
           min_value == MinValue(values, call.min_value)
           range == ValueRange(min_value, MaxValue(values, call.max_value))
       IN  /\ Len(rows) = renderer.height
           /\ \A j \in 1..renderer.width :
                 LET idx == n - renderer.width + j
                     h == IF idx >= 1
                          THEN Clamp(FloorDiv((values[idx] - min_value) * renderer.height,
                                              range), 0, renderer.height)
                          ELSE 0
                 IN  \A r1 \in 1..renderer.height :
                        /\ (rows[r1][j] # "sp") <=> ((r1 - 1) >= renderer.height - h)
                        /\ ((r1 - 1) > renderer.height - h) => rows[r1][j] = "full"

(* C5: with explicit min_value and max_value, body column j (0 = leftmost)
   shows the value at index N - width + j when that index exists and is blank
   otherwise: the most recent value is in the rightmost column and values
   older than the last width do not change the body. *)
C5_LastWidthValues ==
    (RenderDone /\ ~IsNone(call.min_value) /\ ~IsNone(call.max_value)) =>
        /\ out.err = "none"
        /\ LET rows == BodyRows(out.lines)
               n == Len(values)
           IN  \A j \in 1..renderer.width :
                  LET idx == n - renderer.width + j
                  IN  IF idx >= 1
                      THEN LET one == BodyRows(Render(renderer, <<values[idx]>>,
                                                      call.min_value, call.max_value,
                                                      call.show_y_axis).lines)
                           IN  Column(rows, j) = Column(one, renderer.width)
                      ELSE Blank(Column(rows, j))

C5_Witness ==
    /\ RenderDone
    /\ ~IsNone(call.min_value) /\ ~IsNone(call.max_value)
    /\ Len(values) > renderer.width
    /\ renderer.width >= 2
    /\ values[1] # values[Len(values)]
    /\ values[1] # values[Len(values) - renderer.width + 1]
    /\ ~Blank(Column(BodyRows(out.lines), renderer.width))
    /\ Blank(Column(BodyRows(out.lines), 1))

(* C6: render of an empty input returns height blank rows of width characters,
   for either value of show_y_axis; when the axis is shown and min_value and
   max_value are not supplied, the labels are present and show 0.0. *)
C6_EmptyInput ==
    (RenderDone /\ values = << >>) =>
        /\ out.err = "none"
        /\ LET rows == BodyRows(out.lines)
           IN  /\ Len(rows) = renderer.height
               /\ \A i \in 1..Len(rows) : Len(rows[i]) = renderer.width /\ Blank(rows[i])
        /\ (call.show_y_axis /\ IsNone(call.min_value) /\ IsNone(call.max_value)) =>
              LabelsOf(out.lines) = <<<<"0", ".", "0">>, <<"0", ".", "0">>>>

(* C8: render of a non-empty input whose values are all equal, with min/max
   derived from the input or supplied equal to each other, completes without
   a division error, and every data column has the same bar height, which is
   0 rows or the full height. *)
AllEqual(s) == s # << >> /\ \A i \in 1..Len(s) : s[i] = s[1]
DegenerateCall ==
    /\ RenderDone
    /\ AllEqual(values)
    /\ \/ IsNone(call.min_value) /\ IsNone(call.max_value)
       \/ ~IsNone(call.min_value) /\ call.min_value = call.max_value
DataColumns == {j \in 1..renderer.width : j > renderer.width - Len(values)}

C8_ZeroOrFull ==
    DegenerateCall =>
        /\ out.err = "none"
        /\ LET rows == BodyRows(out.lines)
           IN  \A j \in DataColumns :
                  /\ Column(rows, j) = Column(rows, renderer.width)
                  /\ Filled(Column(rows, j)) \in {0, renderer.height}

\* as amended: the common bar height is 0 when min/max are derived (or equal
\* the value), and int((v - m) * height) when min_value = max_value = m is
\* supplied, which is partial when 0 < (v - m) * height < height
C8_Amended ==
    DegenerateCall =>
        /\ out.err = "none"
        /\ LET rows == BodyRows(out.lines)
               bars == RenderBars(renderer, values, call.min_value, call.max_value)
               m == MinValue(values, call.min_value)
               h == TruncDiv((values[1] - m) * renderer.height, One)
           IN  \A j \in DataColumns :
                  /\ Column(rows, j) = Column(rows, renderer.width)
                  /\ bars[j] = h
                  /\ (IsNone(call.min_value) \/ values[1] <= m) => Blank(Column(rows, j))
                  /\ (values[1] - m >= One) => Filled(Column(rows, j)) = renderer.height
                  /\ (~renderer.use_unicode /\ h >= 0 /\ h <= renderer.height)
                        => Filled(Column(rows, j)) = h

C8_Witness ==
    /\ DegenerateCall
    /\ ~IsNone(call.min_value)
    /\ Len(values) >= 2
    /\ ~renderer.use_unicode
    /\ Filled(Column(BodyRows(out.lines), renderer.width)) = 1
    /\ renderer.height = 2

----------------------------------------------------------------------------
(* Calls of render_sparkline on bounded inputs *)

SparkCall(w) ==
    [op |-> "sparkline", min_value |-> None, max_value |-> None, show_y_axis |-> FALSE,
     width |-> w]
SparkCalls == {SparkCall(w) : w \in Opt(1..MaxWidth)}

InitSpark ==
    /\ renderer \in Renderers
    /\ values \in SeqsUpTo(Vals, SparkLen)
    /\ values2 = << >>
    /\ values3 = << >>
    /\ call \in SparkCalls
    /\ out = NoOut
    /\ memo = NoMemo
    /\ HistoryIdle

\* the call of render_sparkline, once
CallSparkline ==
    /\ out = NoOut
    /\ out' = RenderSparkline(renderer, values, call.width)
    /\ UNCHANGED <<renderer, values, values2, values3, call, memo, histVars, srvVars, colVars, feedVars>>

NextSpark == CallSparkline

SpecSpark == InitSpark /\ [][NextSpark]_vars

SparkDone == call.op = "sparkline" /\ out # NoOut
Level(g) == CHOOSE k \in 1..8 : spark_chars[k] = g

(* C10: render_sparkline of a non-empty input returns one row with one glyph
   for each value of the last-width window, each one of the 8 sparkline
   glyphs, normalized against the minimum and maximum of the window alone:
   the output is that of the window, the window minimum is the lowest glyph,
   the window maximum (when it is not the minimum) the highest, and a larger
   value never has a lower glyph. *)
C10_Sparkline ==
    (SparkDone /\ values # << >>) =>
        LET width == WidthArg(renderer, call.width)
            window == LastN(values, width)
            n == Min2(Len(values), width)
        IN  /\ out.err = "none"
            /\ Len(out.lines) = 1
            /\ Len(out.lines[1]) = n
            /\ Len(window) = n
            /\ \A i \in 1..n : \E k \in 1..8 : out.lines[1][i] = spark_chars[k]
            /\ out = RenderSparkline(renderer, window, call.width)
            /\ \A i \in 1..n :
                  /\ window[i] = SeqMin(window) => out.lines[1][i] = spark_chars[1]
                  /\ (window[i] = SeqMax(window) /\ SeqMax(window) # SeqMin(window))
                        => out.lines[1][i] = spark_chars[8]
            /\ \A i, j \in 1..n :
                  window[i] <= window[j] => Level(out.lines[1][i]) <= Level(out.lines[1][j])

C10_Witness ==
    /\ SparkDone
    /\ Len(values) > WidthArg(renderer, call.width)
    /\ WidthArg(renderer, call.width) >= 3
    /\ values[1] < SeqMin(LastN(values, WidthArg(renderer, call.width)))
    /\ out.lines[1][1] = spark_chars[1]
    /\ out.lines[1][2] \notin {spark_chars[1], spark_chars[8]}
    /\ out.lines[1][3] = spark_chars[8]

----------------------------------------------------------------------------
(* Calls of the four render methods, in any order, on the same renderer and
   the same lists *)

\* a buggy method for the check of C9: the width argument is kept in self
SelfAfterKeepsWidth(r, c) == IF IsNone(c.width) THEN r ELSE [r EXCEPT !.width = c.width[1]]

\* the renderer after a call: no method assigns to self
SelfAfter(r, c) == r

\* an argument list after a call: slices, comprehensions and + build new
\* lists, and only the new lists are appended to
ListAfter(list, c) == list

\* the caller's rates, given in whole MB/s, as bytes per second
Bytes(vals) == [i \in 1..Len(vals) |-> vals[i] * MiB]

SplitCall(w, axis) ==
    [op |-> "network_split", min_value |-> None, max_value |-> None,
     show_y_axis |-> axis, width |-> w]
StackedCall(w, mn, mx, axis) ==
    [op |-> "stacked", min_value |-> mn, max_value |-> mx, show_y_axis |-> axis,
     width |-> w]

ChartCalls ==
    {RenderCall(None, None, axis) : axis \in BOOLEAN}
        \cup {SparkCall(w) : w \in Opt({1})}
        \cup {SplitCall(None, axis) : axis \in BOOLEAN}
        \cup {StackedCall(None, None, None, axis) : axis \in BOOLEAN}

\* what the call c returns on renderer r and the lists a, b, c3
Apply(r, c, a, b, c3) ==
    IF c.op = "render" THEN Render(r, a, c.min_value, c.max_value, c.show_y_axis)
    ELSE IF c.op = "sparkline" THEN RenderSparkline(r, a, c.width)
    ELSE IF c.op = "network_split"
         THEN RenderNetworkSplit(r, Bytes(a), Bytes(b), c.width, c.show_y_axis)
    ELSE RenderStacked(r, a, b, c3, c.width, c.min_value, c.max_value, c.show_y_axis)

InitChart ==
    /\ renderer \in Renderers
    /\ values \in SeqsUpTo(0..1, ChartLen)
    /\ values2 \in SeqsUpTo({One}, ChartLen)
    /\ values3 \in SeqsUpTo({One}, ChartLen)
    /\ call = NoCall
    /\ out = NoOut
    /\ memo = NoMemo
    /\ HistoryIdle

\* one call of a render method
CallChart ==
    /\ \E c \in ChartCalls :
          /\ call' = c
          /\ out' = Apply(renderer, c, values, values2, values3)
          /\ renderer' = SelfAfter(renderer, c)
          /\ values' = ListAfter(values, c)
          /\ values2' = ListAfter(values2, c)
          /\ values3' = ListAfter(values3, c)
          /\ memo' = IF memo.call # NoCall /\ c.op # memo.call.op
                     THEN [memo EXCEPT !.other = TRUE] ELSE memo
    /\ UNCHANGED <<histVars, srvVars, colVars, feedVars>>

\* ghost: the last call and its result are remembered, once
Remember ==
    /\ memo = NoMemo
    /\ out # NoOut
    /\ memo' = [call |-> call, out |-> out, other |-> FALSE]
    /\ UNCHANGED <<renderer, values, values2, values3, call, out, histVars, srvVars, colVars, feedVars>>

NextChart == CallChart \/ Remember

SpecChart == InitChart /\ [][NextChart]_vars

(* C7: none of render, render_sparkline, render_network_split and
   render_stacked raises when any or all of its inputs are empty or shorter
   than width, with or without the axis; each returns a text. *)
C7_NeverRaises ==
    out # NoOut => (out.err = "none" /\ Len(out.lines) >= 1)

C7_Witness ==
    /\ call.op = "stacked"
    /\ call.show_y_axis
    /\ values = << >>
    /\ values2 # << >>
    /\ values3 = << >>
    /\ Len(values2) < renderer.width
    /\ out.err = "none"
    /\ Len(out.lines) = renderer.height + 2

(* C9: a render call leaves the renderer's configuration and every input list
   unchanged, so a call with the inputs and configuration of an earlier call
   returns what that call returned, whatever was called in between. *)
C9_Step ==
    /\ renderer' = renderer
    /\ values' = values
    /\ values2' = values2
    /\ values3' = values3
    /\ (memo.call # NoCall /\ call' = memo.call /\ out' # NoOut) => out' = memo.out

C9_NoHiddenState == [][C9_Step]_vars

C9_Witness ==
    /\ memo.call.op = "render"
    /\ memo.other
    /\ call = memo.call
    /\ out = memo.out
    /\ out.err = "none"
    /\ values # << >>
    /\ renderer.width > 1

----------------------------------------------------------------------------
(* Calls of render_network_split on bounded byte rates *)

\* byte rates: none, 10 bytes/s, half an MB/s, 10 MB/s
SplitVals == {0, 10, MiB \div 2, 10 * MiB}
SplitRenderers == {ChartRenderer(w, h, TRUE) : w \in 1..ChartLen, h \in 1..SplitHeight}

InitSplit ==
    /\ renderer \in SplitRenderers
    /\ values \in SeqsUpTo(SplitVals, ChartLen)
    /\ values2 \in SeqsUpTo(SplitVals, ChartLen)
    /\ values3 = << >>
    /\ call \in {SplitCall(None, axis) : axis \in BOOLEAN}
    /\ out = NoOut
    /\ memo = NoMemo
    /\ HistoryIdle

\* one call of render_network_split
CallSplit ==
    /\ out = NoOut
    /\ out' = RenderNetworkSplit(renderer, values, values2, call.width, call.show_y_axis)
    /\ UNCHANGED <<renderer, values, values2, values3, call, memo, histVars, srvVars, colVars, feedVars>>

NextSplit == CallSplit

SpecSplit == InitSplit /\ [][NextSplit]_vars

SplitDone == call.op = "network_split" /\ out # NoOut

\* the chart body of a split chart's line: what follows the rule of a labelled
\* line, the whole of a line of bar glyphs or of the separator
SplitBodyOf(line) ==
    IF HasRule(line) THEN SubSeq(line, RulePos(line) + 1, Len(line))
    ELSE IF \A i \in 1..Len(line) : line[i] \in BarGlyphs \cup {"dash"} THEN line
    ELSE << >>

SplitRows(lines) ==
    LET rows == SelectSeq(lines, LAMBDA l : SplitBodyOf(l) # << >>)
    IN  [i \in 1..Len(rows) |-> SplitBodyOf(rows[i])]

IsSeparator(row) == row # << >> /\ \A i \in 1..Len(row) : row[i] = "dash"
SeparatorRows(rows) == {i \in 1..Len(rows) : IsSeparator(rows[i])}

(* C11: for all inputs (any lengths, empty included, and any positive height,
   even or odd) the chart body of render_network_split has exactly height bar
   rows and exactly one separator row. *)
C11_SplitRowCount ==
    SplitDone =>
        LET rows == SplitRows(out.lines)
        IN  /\ out.err = "none"
            /\ Cardinality(SeparatorRows(rows)) = 1
            /\ Len(rows) - Cardinality(SeparatorRows(rows)) = renderer.height

\* the window of a series: its last width values, zeros to the left of them
SplitWindow(vals, width) == PadZeros(LastN(ToMb(vals), width), width)

\* the scale of a series whose window maximum is own, the other's being other:
\* max(own, 10% of max(own, other, 1 MB/s)), in tenths of a unit
SplitScale10(own, other) == Max2(10 * own, Max2(Max2(own, other), MbOne))

\* the scaled height of the value v of a series: int(v / scale * half_height)
SplitHeightOf(v, own, other, half_height) ==
    TruncDiv(v * 10 * half_height, SplitScale10(own, other))

\* the rows above and below the separator of a split chart's body
TopRows(rows) ==
    LET s == CHOOSE i \in SeparatorRows(rows) : TRUE IN SubSeq(rows, 1, s - 1)
BottomRows(rows) ==
    LET s == CHOOSE i \in SeparatorRows(rows) : TRUE IN SubSeq(rows, s + 1, Len(rows))

\* a split call that drew a chart with a separator
SplitDrawn ==
    /\ SplitDone
    /\ out.err = "none"
    /\ SeparatorRows(SplitRows(out.lines)) # {}

\* the cells of the split chart are where the scaled heights put them: in the
\* top half row r (0 = top edge) of a column is filled exactly when r is below
\* the column's scaled A height, in the bottom half the run ends at the bottom
C12_Placement ==
    SplitDrawn =>
        LET rows == SplitRows(out.lines)
            top == TopRows(rows)
            bottom == BottomRows(rows)
            half == renderer.height \div 2
            a == SplitWindow(values, renderer.width)
            b == SplitWindow(values2, renderer.width)
        IN  /\ Len(top) = half /\ Len(bottom) = half
            /\ \A j \in 1..renderer.width :
                  LET ha == SplitHeightOf(a[j], SeqMax(a), SeqMax(b), half)
                      hb == SplitHeightOf(b[j], SeqMax(b), SeqMax(a), half)
                  IN  /\ \A r \in 1..half :
                            /\ top[r][j] \in {"full", "sp"}
                            /\ top[r][j] = "full" <=> (r - 1) < ha
                            /\ bottom[r][j] \in {"full", "sp"}
                            /\ bottom[r][j] = "full" <=> (r - 1) >= half - hb

\* the series that differ from vals in the value of one column at most
SplitAlternatives(vals) ==
    {[vals EXCEPT ![i] = v] : i \in 1..Len(vals), v \in SplitVals}

\* the rows of the chart drawn for the series sv and rv by the call of the state
SplitRowsFor(sv, rv) ==
    SplitRows(RenderNetworkSplit(renderer, sv, rv, call.width, call.show_y_axis).lines)

(* C12: in every render_network_split output the A (sent) bars are only above
   the separator, a run from the top edge of the scaled A height, the B
   (received) bars only below it, a run ending at the bottom edge; no A value
   affects a cell below the separator and no B value a cell above it. *)
C12_SplitHalves ==
    /\ C12_Placement
    /\ SplitDrawn =>
          LET top == TopRows(SplitRows(out.lines))
              bottom == BottomRows(SplitRows(out.lines))
          IN  /\ \A rv \in SplitAlternatives(values2) :
                    TopRows(SplitRowsFor(values, rv)) = top
              /\ \A sv \in SplitAlternatives(values) :
                    BottomRows(SplitRowsFor(sv, values2)) = bottom

\* the scale of the A series of sv against rv, and of the B series
ScaleA(sv, rv) ==
    SplitScale10(SeqMax(SplitWindow(sv, renderer.width)),
                 SeqMax(SplitWindow(rv, renderer.width)))
ScaleB(sv, rv) == ScaleA(rv, sv)

(* C12, amended: the placement as claimed; a B value changes the cells above
   the separator only by changing the A scale (10% of the combined maximum
   exceeding A's own maximum), and an A value the cells below it only by
   changing the B scale. *)
C12_Amended ==
    /\ C12_Placement
    /\ SplitDrawn =>
          LET top == TopRows(SplitRows(out.lines))
              bottom == BottomRows(SplitRows(out.lines))
              scale_a == ScaleA(values, values2)
              scale_b == ScaleB(values, values2)
          IN  /\ \A rv \in SplitAlternatives(values2) :
                    ScaleA(values, rv) = scale_a
                        => TopRows(SplitRowsFor(values, rv)) = top
              /\ \A sv \in SplitAlternatives(values) :
                    ScaleB(sv, values2) = scale_b
                        => BottomRows(SplitRowsFor(sv, values2)) = bottom

C12_Witness ==
    /\ SplitDrawn
    /\ renderer.height = 4 /\ renderer.width = 2
    /\ values = <<MiB \div 2, 0>>
    /\ values2 = <<10, 10 * MiB>>
    /\ Column(TopRows(SplitRows(out.lines)), 1) = <<"full", "sp">>
    /\ Column(BottomRows(SplitRows(out.lines)), 2) = <<"full", "full">>
    /\ Blank(Column(BottomRows(SplitRows(out.lines)), 1))

\* a split call that drew a chart with bar rows (height >= 2)
SplitBars == SplitDrawn /\ renderer.height \div 2 >= 1

(* C13: render_network_split scales each series by its own window maximum,
   floored at 10% of the larger of the two maxima, so a column holding its
   series' positive maximum has a bar whenever that maximum is at least 10% of
   the combined maximum, and a column of value 0 has none; so
   render_split([10,0],[0,10], width=2, height=4) has a bar in the top half
   for column 0 only and in the bottom half for column 1 only. *)
C13_OwnMaxHasBar ==
    SplitBars =>
        LET rows == SplitRows(out.lines)
            a == SplitWindow(values, renderer.width)
            b == SplitWindow(values2, renderer.width)
            combined == Max2(SeqMax(a), SeqMax(b))
        IN  \A j \in 1..renderer.width :
               /\ (a[j] = SeqMax(a) /\ a[j] > 0 /\ 10 * a[j] >= combined)
                     => ~Blank(Column(TopRows(rows), j))
               /\ (b[j] = SeqMax(b) /\ b[j] > 0 /\ 10 * b[j] >= combined)
                     => ~Blank(Column(BottomRows(rows), j))
               /\ a[j] = 0 => Blank(Column(TopRows(rows), j))
               /\ b[j] = 0 => Blank(Column(BottomRows(rows), j))

(* C13, amended: the rates are bytes/s and are scaled as MB/s (v / 2^20); each
   series is scaled by its own window maximum, floored at 10% of the larger
   of the two maxima and of 1 MB/s.  A column holding its series' positive
   maximum M fills its whole half when M is at least 10% of max(combined
   maximum, 1 MB/s), and has a bar at all exactly when M * (height // 2) is
   at least that 10%; a column of value 0 has no bar.  The example holds for
   rates of 10 MB/s; for 10 bytes/s no bar is drawn. *)
C13_Amended ==
    SplitBars =>
        LET rows == SplitRows(out.lines)
            half == renderer.height \div 2
            a == SplitWindow(values, renderer.width)
            b == SplitWindow(values2, renderer.width)
            floored == Max2(Max2(SeqMax(a), SeqMax(b)), MbOne)
        IN  \A j \in 1..renderer.width :
               /\ (a[j] = SeqMax(a) /\ a[j] > 0) =>
                     /\ 10 * a[j] >= floored => Filled(Column(TopRows(rows), j)) = half
                     /\ ~Blank(Column(TopRows(rows), j)) <=> 10 * a[j] * half >= floored
               /\ (b[j] = SeqMax(b) /\ b[j] > 0) =>
                     /\ 10 * b[j] >= floored => Filled(Column(BottomRows(rows), j)) = half
                     /\ ~Blank(Column(BottomRows(rows), j)) <=> 10 * b[j] * half >= floored
               /\ a[j] = 0 => Blank(Column(TopRows(rows), j))
               /\ b[j] = 0 => Blank(Column(BottomRows(rows), j))

C13_Witness ==
    /\ SplitBars
    /\ renderer.width = 2 /\ renderer.height = 4
    /\ values = <<10 * MiB, 0>>
    /\ values2 = <<0, 10 * MiB>>
    /\ Filled(Column(TopRows(SplitRows(out.lines)), 1)) = 2
    /\ Blank(Column(TopRows(SplitRows(out.lines)), 2))
    /\ Blank(Column(BottomRows(SplitRows(out.lines)), 1))
    /\ Filled(Column(BottomRows(SplitRows(out.lines)), 2)) = 2

----------------------------------------------------------------------------
(* Calls of render_stacked on bounded layers, any of which may be None *)

StackRenderers == {ChartRenderer(w, h, TRUE) : w \in 1..MaxWidth, h \in 1..MaxHeight}

InitStacked ==
    /\ renderer \in StackRenderers
    /\ values \in Opt(SeqsUpTo({0, 1, One}, ChartLen))
    /\ values2 \in Opt(SeqsUpTo({0, One}, ChartLen))
    /\ values3 \in Opt(SeqsUpTo({0, One}, ChartLen))
    /\ call \in {StackedCall(None, None, mx, axis) : mx \in Opt({One}), axis \in BOOLEAN}
    /\ out = NoOut
    /\ memo = NoMemo
    /\ HistoryIdle

\* one call of render_stacked
CallStacked ==
    /\ out = NoOut
    /\ out' = RenderStackedLayers(renderer, values, values2, values3, call.width,
                                  call.min_value, call.max_value, call.show_y_axis)
    /\ UNCHANGED <<renderer, values, values2, values3, call, memo, histVars, srvVars, colVars, feedVars>>

NextStacked == CallStacked

SpecStacked == InitStacked /\ [][NextStacked]_vars

\* a stacked call that returned a text
StackedDone == call.op = "stacked" /\ out # NoOut /\ out.err = "none"

\* the band of a glyph, counted from the baseline: bottom, middle, top, blank
Band(g) == CASE g = "full" -> 0 [] g = "dark" -> 1 [] g = "med" -> 2 [] OTHER -> 3

(* C14: in every column of every render_stacked output, read from the bottom
   row upward, the glyphs follow the order bottom layer, middle layer, top
   layer, blank: above a later band's glyph or a blank no earlier band's glyph
   appears. *)
C14_BandOrder ==
    StackedDone =>
        LET rows == BodyRows(out.lines)
        IN  \A j \in 1..renderer.width :
               \A lo, hi \in 1..Len(rows) :
                  /\ rows[lo][j] \in {"full", "dark", "med", "sp"}
                  /\ lo > hi => Band(rows[lo][j]) <= Band(rows[hi][j])

C14_Witness ==
    /\ StackedDone
    /\ renderer.height = 3 /\ renderer.width = 2
    /\ Column(BodyRows(out.lines), 2) = <<"med", "dark", "full">>
    /\ Column(BodyRows(out.lines), 1) = <<"sp", "sp", "full">>

\* the window of a layer: its last width values, zeros to the left of them
LayerWindow(o, width) == PadZeros(LastN(LayerList(o), width), width)

\* the value_range of the stacked call of the state: max_value as supplied or
\* the largest column total of the window, min_value 0, a range of 0 made 1
StackedRange ==
    LET all_latest == LastN(AllValues(LayerList(values), LayerList(values2),
                                      LayerList(values3)), renderer.width)
        max_value == IF IsNone(call.max_value) THEN SeqMax(all_latest)
                     ELSE call.max_value[1]
    IN  IF max_value = 0 THEN One ELSE max_value

(* C15: in every column of a render_stacked output for non-negative layer
   values, the number of filled rows differs by at most 1 from the scaled
   column total floor((bottom + middle + top) / value_range * height) (at most
   height rows can be filled). *)
C15_FilledNearTotal ==
    (StackedDone /\ AllValues(LayerList(values), LayerList(values2),
                              LayerList(values3)) # << >>) =>
        LET rows == BodyRows(out.lines)
            b == LayerWindow(values, renderer.width)
            m == LayerWindow(values2, renderer.width)
            t == LayerWindow(values3, renderer.width)
        IN  \A j \in 1..renderer.width :
               LET total == Min2(renderer.height,
                                 FloorDiv((b[j] + m[j] + t[j]) * renderer.height,
                                          StackedRange))
               IN  Abs(Filled(Column(rows, j)) - total) <= 1

\* a list of n zeros
Zeros(n) == Repeat(0, n)

\* the stacked call of the state on the layers b, m, t
StackedFor(b, m, t) ==
    RenderStackedLayers(renderer, b, m, t, call.width, call.min_value,
                        call.max_value, call.show_y_axis)

\* a missing layer: None, or an empty list
Missing(o) == IsNone(o) \/ o = Some(<< >>)

(* C16: render_stacked treats a missing layer as all-zero: with one layer
   missing (empty or absent) the output is that of the call with the layer
   replaced by zeros, as many as the longest other layer has values, and the
   call never raises. *)
C16_MissingIsZero ==
    (call.op = "stacked" /\ out # NoOut) =>
        /\ out.err = "none"
        /\ Missing(values) =>
              out = StackedFor(Some(Zeros(Max2(Len(LayerList(values2)),
                                               Len(LayerList(values3))))), values2, values3)
        /\ Missing(values2) =>
              out = StackedFor(values, Some(Zeros(Max2(Len(LayerList(values)),
                                                       Len(LayerList(values3))))), values3)
        /\ Missing(values3) =>
              out = StackedFor(values, values2,
                               Some(Zeros(Max2(Len(LayerList(values)),
                                               Len(LayerList(values2))))))

\* how many cells of a column hold the glyph g
CountGlyph(col, g) == Cardinality({i \in 1..Len(col) : col[i] = g})

\* the scaled height of a layer value: int((v / value_range) * height)
StackedHeightOf(v) == TruncDiv(v * renderer.height, StackedRange)

\* every column has room for its three bands, and every band is drawn in full
StackedFits ==
    LET rows == BodyRows(out.lines)
        b == LayerWindow(values, renderer.width)
        m == LayerWindow(values2, renderer.width)
        t == LayerWindow(values3, renderer.width)
    IN  \A j \in 1..renderer.width :
           /\ StackedHeightOf(b[j]) + StackedHeightOf(m[j]) + StackedHeightOf(t[j])
                 <= renderer.height
           /\ CountGlyph(Column(rows, j), "full") = StackedHeightOf(b[j])
           /\ CountGlyph(Column(rows, j), "dark") = StackedHeightOf(m[j])
           /\ CountGlyph(Column(rows, j), "med") = StackedHeightOf(t[j])

\* a stacked call that derives its scale itself and drew a chart
StackedDerived ==
    /\ StackedDone
    /\ IsNone(call.max_value)
    /\ AllValues(LayerList(values), LayerList(values2), LayerList(values3)) # << >>

(* C28: when render_stacked derives its scale itself (no max_value, min 0)
   from non-negative layers, no column overflows the grid: in every column
   the three scaled band heights sum to at most height and every band is
   drawn in full, also when the three layers have different lengths. *)
C28_NoOverflow == StackedDerived => StackedFits

\* the part of C28 that holds: for layers of one length
C28_EqualLengths ==
    (/\ StackedDerived
     /\ Len(LayerList(values)) = Len(LayerList(values2))
     /\ Len(LayerList(values2)) = Len(LayerList(values3)))
        => StackedFits

----------------------------------------------------------------------------
(* The web service: api/websocket.py and api/metrics.py on one asyncio event
   loop.  A coroutine runs from one await to the next without interruption:
   loop names the coroutine that is between two awaits, and every step of a
   coroutine needs the loop.  collect() of the background collector runs in a
   worker thread (asyncio.to_thread) and needs no loop. *)

Subscribers == 1..MaxSubs

\* what collect() can return: two different samples without Apple Silicon data
ServerSamples == {SystemMetrics(v, None) : v \in {10, 20}}

Task(pc, metrics) == [pc |-> pc, metrics |-> metrics]

InitServer ==
    /\ latest_metrics = None
    /\ metrics_lock = "free"
    /\ collection_task = NoTask
    /\ subscribers = [s \in Subscribers |-> "closed"]
    /\ handler = "idle"
    /\ loop = "free"
    /\ max_size = ServerCap
    /\ history = MetricsHistoryNew
    /\ api_history = MetricsHistoryNew
    /\ stores = 0
    /\ tasks_alive = 0
    /\ connections = << >>
    /\ response = NoResponse
    /\ log = [m \in Metrics |-> << >>]
    /\ ChartIdle
    /\ CollectorIdle

\* a test that finds no task whatever there is
NeedsCollectorAlways(task) == TRUE

\* _collection_task is None or _collection_task.done()
NeedsCollector(task) == task.pc \in {"none", "done"}

\* start_background_collector: the task is created when there is none, or
\* when the one there was is done
StartBackgroundCollector(task) ==
    IF NeedsCollector(task) THEN Task("ready", None) ELSE task

\* ghost: the tasks alive after the start: a created task is one more beside
\* a task that is not done (the count saturates)
TasksAfterStart(task, alive) ==
    IF NeedsCollector(task)
    THEN Min2((IF task.pc \in {"none", "done"} THEN 0 ELSE alive) + 1, MaxSubs)
    ELSE alive

\* websocket_metrics up to its loop: accept, then start the collector
Connect(s) ==
    /\ loop = "free"
    /\ subscribers[s] = "closed"
    /\ subscribers' = [subscribers EXCEPT ![s] = "polling"]
    /\ collection_task' = StartBackgroundCollector(collection_task)
    /\ tasks_alive' = TasksAfterStart(collection_task, tasks_alive)
    /\ UNCHANGED <<latest_metrics, metrics_lock, handler, loop, api_history,
                   histVars, chartVars, colVars, feedVars, stores>>

\* one turn of the loop of websocket_metrics: the cell is read under the lock;
\* with no sample yet the connection sleeps, with one it is sent (or the send
\* finds the client gone, which ends the handler), then the connection sleeps
Poll(s) ==
    /\ loop = "free"
    /\ metrics_lock = "free"
    /\ subscribers[s] = "polling"
    /\ \E gone \in BOOLEAN :
          subscribers' = [subscribers EXCEPT
                             ![s] = IF IsNone(latest_metrics) THEN "sleeping"
                                    ELSE IF gone THEN "closed" ELSE "sleeping"]
    /\ UNCHANGED <<latest_metrics, metrics_lock, collection_task, handler, loop,
                   api_history, histVars, chartVars, colVars, feedVars, stores, tasks_alive>>

\* asyncio.sleep of a connection is over
SubscriberWake(s) ==
    /\ subscribers[s] = "sleeping"
    /\ subscribers' = [subscribers EXCEPT ![s] = "polling"]
    /\ UNCHANGED <<latest_metrics, metrics_lock, collection_task, handler, loop,
                   api_history, histVars, chartVars, colVars, feedVars, stores, tasks_alive>>

\* _background_collector, top of the loop: collect() is handed to a thread
CollectorStart ==
    /\ loop = "free"
    /\ collection_task.pc = "ready"
    /\ collection_task' = Task("collecting", None)
    /\ UNCHANGED <<latest_metrics, metrics_lock, subscribers, handler, loop,
                   api_history, histVars, chartVars, colVars, feedVars, stores, tasks_alive>>

\* the worker thread: collect() returns a sample or raises
WorkerCollect ==
    /\ collection_task.pc = "collecting"
    /\ \/ \E metrics \in ServerSamples :
             collection_task' = Task("returned", Some(metrics))
       \/ collection_task' = Task("raised", None)
    /\ UNCHANGED <<latest_metrics, metrics_lock, subscribers, handler, loop,
                   api_history, histVars, chartVars, colVars, feedVars, stores, tasks_alive>>

\* the collector resumes with the sample and enters "async with _metrics_lock"
CollectorAcquire ==
    /\ loop = "free"
    /\ metrics_lock = "free"
    /\ collection_task.pc = "returned"
    /\ collection_task' = [collection_task EXCEPT !.pc = "locked"]
    /\ metrics_lock' = "collector"
    /\ loop' = "collector"
    /\ UNCHANGED <<latest_metrics, subscribers, handler, api_history, histVars, chartVars, colVars, feedVars, stores, tasks_alive>>

\* _latest_metrics = metrics, and the lock is released at the end of the block
CollectorStore ==
    /\ loop = "collector"
    /\ collection_task.pc = "locked"
    /\ latest_metrics' = collection_task.metrics
    /\ metrics_lock' = "free"
    /\ collection_task' = [collection_task EXCEPT !.pc = "stored"]
    /\ stores' = Min2(stores + 1, MaxStores)
    /\ UNCHANGED <<subscribers, handler, loop, api_history, histVars, chartVars, colVars,
                   feedVars, tasks_alive>>

\* a handler that ends the task on an exception
OnCollectorErrorExit == "done"

\* the position of the collector after an exception: it is reported, and the
\* loop goes on after a sleep of 0.5 s
OnCollectorError == "backoff"

\* history.add_metrics(metrics), then the sleep of 1 s; or add_metrics raises
CollectorAppend ==
    /\ loop = "collector"
    /\ collection_task.pc = "stored"
    /\ \/ /\ history' = AddMetrics(history, collection_task.metrics[1], max_size)
          /\ collection_task' = Task("sleeping", None)
       \/ /\ history' = history
          /\ collection_task' = Task(OnCollectorError, None)
    /\ loop' = "free"
    /\ UNCHANGED <<latest_metrics, metrics_lock, subscribers, handler, api_history,
                   max_size, log, chartVars, colVars, feedVars, stores, tasks_alive>>

\* the collector resumes with the exception of collect()
CollectorFailed ==
    /\ loop = "free"
    /\ collection_task.pc = "raised"
    /\ collection_task' = Task(OnCollectorError, None)
    /\ UNCHANGED <<latest_metrics, metrics_lock, subscribers, handler, loop,
                   api_history, histVars, chartVars, colVars, feedVars, stores, tasks_alive>>

\* asyncio.sleep of the collector is over: the next turn of "while True"
CollectorWake ==
    /\ collection_task.pc \in {"sleeping", "backoff"}
    /\ collection_task' = Task("ready", None)
    /\ UNCHANGED <<latest_metrics, metrics_lock, subscribers, handler, loop,
                   api_history, histVars, chartVars, colVars, feedVars, stores, tasks_alive>>

\* GET /metrics: the handler calls collector.collect() on the event loop
GetMetricsBegin ==
    /\ loop = "free"
    /\ handler = "idle"
    /\ handler' = "collecting"
    /\ loop' = "get_metrics"
    /\ UNCHANGED <<latest_metrics, metrics_lock, collection_task, subscribers,
                   api_history, histVars, chartVars, colVars, feedVars, stores, tasks_alive>>

\* GET /metrics: collect() returns and the sample is added to the history of
\* api/metrics.py, or collect() raises and the request fails
GetMetricsEnd ==
    /\ loop = "get_metrics"
    /\ handler = "collecting"
    /\ \/ \E metrics \in ServerSamples :
             api_history' = AddMetrics(api_history, metrics, max_size)
       \/ api_history' = api_history
    /\ handler' = "idle"
    /\ loop' = "free"
    /\ UNCHANGED <<latest_metrics, metrics_lock, collection_task, subscribers,
                   histVars, chartVars, colVars, feedVars, stores, tasks_alive>>

NextServer ==
    \/ \E s \in Subscribers : Connect(s) \/ Poll(s) \/ SubscriberWake(s)
    \/ CollectorStart
    \/ WorkerCollect
    \/ CollectorAcquire
    \/ CollectorStore
    \/ CollectorAppend
    \/ CollectorFailed
    \/ CollectorWake
    \/ GetMetricsBegin
    \/ GetMetricsEnd

SpecServer == InitServer /\ [][NextServer]_vars

\* the scheduling of the service: the worker thread and the timers make
\* progress, a blocking call of a handler returns, and the event loop runs
\* every coroutine that is ready again and again (its ready queue is first in,
\* first out)
FairServer ==
    /\ WF_vars(WorkerCollect)
    /\ WF_vars(CollectorWake)
    /\ WF_vars(CollectorStore)
    /\ WF_vars(CollectorAppend)
    /\ WF_vars(GetMetricsEnd)
    /\ SF_vars(CollectorStart)
    /\ SF_vars(CollectorAcquire)
    /\ SF_vars(CollectorFailed)

SpecServerLive == SpecServer /\ FairServer

\* a collect() call is in progress: in the worker thread, or in the handler
CollectInProgress == collection_task.pc = "collecting" \/ handler = "collecting"

(* C17: sampling never runs on the path that services renders and requests:
   while a collect() call is in progress, every open WebSocket subscriber and
   every HTTP request handler can still take steps (the event loop is free).
   This is claimed of the background collector and of the GET /metrics
   handler alike. *)
C17_SamplingOffLoop ==
    CollectInProgress =>
        /\ loop = "free"
        /\ \A s \in Subscribers : subscribers[s] = "polling" => ENABLED Poll(s)

\* the part of C17 that is about the background collector alone
C17_CollectorOffLoop ==
    (collection_task.pc = "collecting" /\ handler = "idle") =>
        /\ loop = "free"
        /\ \A s \in Subscribers : subscribers[s] = "polling" => ENABLED Poll(s)

\* a tick of the collector has failed: collect() raised, or the exception of
\* collect() or of add_metrics has been handled
FailedTick == collection_task.pc \in {"raised", OnCollectorError}

\* the cell changes only when the collector stores the sample it collected
C18_CellStep ==
    latest_metrics' # latest_metrics =>
        /\ collection_task.pc = "locked"
        /\ latest_metrics' = collection_task.metrics

(* C18: a failed sampling attempt (collect() or the history append raising)
   never ends the background collector: after every failed tick the loop
   eventually makes another sampling attempt, and until a sample is stored
   again the latest-sample cell keeps the last sample stored in it. *)
C18_LoopSurvives ==
    /\ FailedTick ~> (collection_task.pc = "collecting")
    /\ [][C18_CellStep]_vars

C18_Witness ==
    /\ collection_task.pc = "backoff"
    /\ latest_metrics = Some(SystemMetrics(20, None))
    /\ history["cpu_percent"] = <<10>>

\* a write of the cell or an append to the history happens under the lock
C19_Step ==
    (latest_metrics' # latest_metrics \/ history' # history) => metrics_lock = "collector"

(* C19: every write of the latest-sample cell and every append to a history
   series by the producer happens while the metrics lock is held. *)
C19_WritesUnderLock == [][C19_Step]_vars

\* the part of C19 that is about the cell alone
C19_CellUnderLock == [][latest_metrics' # latest_metrics => metrics_lock = "collector"]_vars

\* a connection opens: the step of Connect of some subscriber
ConnectStep ==
    \E s \in Subscribers : subscribers[s] = "closed" /\ subscribers'[s] = "polling"

(* C24: at most one background collector task is alive at any time, for any
   number of connections opened in any interleaving: a task is created only
   when there is none (or the one there was is done), and a connection that
   opens while a collector is running starts no second one. *)
C24_OneCollector ==
    /\ [](tasks_alive <= 1)
    /\ [](tasks_alive = 1 <=> collection_task.pc # "none")
    /\ [][ConnectStep =>
            /\ collection_task.pc = "none" => collection_task'.pc = "ready"
            /\ collection_task.pc # "none" =>
                  collection_task' = collection_task /\ tasks_alive' = tasks_alive]_vars

C24_Witness ==
    /\ \A s \in Subscribers : subscribers[s] # "closed"
    /\ collection_task.pc = "collecting"
    /\ tasks_alive = 1
    /\ stores > 0

----------------------------------------------------------------------------
(* The connections of websocket_metrics, await by await.  What a connection
   holds of a sample is the reference to it; the model names the sample by
   the number of the store that put it in the cell (0 is None), so that an
   older sample is told from a newer one. *)

\* a connection: where it is, the sample in its local variable metrics, and
\* (ghost) the sample of the last payload it sent
Conn(pc, metrics, sent) == [pc |-> pc, metrics |-> metrics, sent |-> sent]
NoConn == Conn("closed", 0, 0)

\* the sample in the cell
Cell == IF IsNone(latest_metrics) THEN 0 ELSE stores

\* a test that never waits
ShouldWaitNever(metrics) == FALSE

\* if metrics is None: sleep and read again
ShouldWait(metrics) == metrics = 0

\* a block that keeps the lock while the payload is sent
LockHeldAfterRead == "subscriber"

\* the lock at the end of the "async with _metrics_lock" block
LockAfterRead == "free"

InitFeed ==
    /\ latest_metrics = None
    /\ metrics_lock = "free"
    /\ collection_task = NoTask
    /\ subscribers = << >>
    /\ handler = "idle"
    /\ loop = "free"
    /\ api_history = MetricsHistoryNew
    /\ stores = 0
    /\ tasks_alive = 0
    /\ connections = [s \in Subscribers |-> NoConn]
    /\ response = NoResponse
    /\ max_size = 1
    /\ history = MetricsHistoryNew
    /\ log = [m \in Metrics |-> << >>]
    /\ ChartIdle
    /\ CollectorIdle

\* websocket_metrics up to its loop: accept, then start the collector
Open(s) ==
    /\ loop = "free"
    /\ connections[s].pc = "closed"
    /\ connections' = [connections EXCEPT ![s] = Conn("polling", 0, 0)]
    /\ collection_task' = StartBackgroundCollector(collection_task)
    /\ tasks_alive' = TasksAfterStart(collection_task, tasks_alive)
    /\ UNCHANGED <<latest_metrics, metrics_lock, subscribers, handler, loop, api_history,
                   stores, response, histVars, chartVars, colVars>>

\* the connection enters "async with _metrics_lock"
Acquire(s) ==
    /\ loop = "free"
    /\ metrics_lock = "free"
    /\ connections[s].pc = "polling"
    /\ connections' = [connections EXCEPT ![s].pc = "locked"]
    /\ metrics_lock' = "subscriber"
    /\ loop' = "subscriber"
    /\ UNCHANGED <<latest_metrics, collection_task, subscribers, handler, api_history,
                   stores, tasks_alive, response, histVars, chartVars, colVars>>

\* metrics = _latest_metrics, the end of the block, and the test of metrics:
\* None leads to the sleep of 0.1 s, a sample to the payload and send_json
Read(s) ==
    /\ loop = "subscriber"
    /\ connections[s].pc = "locked"
    /\ connections' = [connections EXCEPT
                          ![s].metrics = Cell,
                          ![s].pc = IF ShouldWait(Cell) THEN "sleeping" ELSE "sending"]
    /\ metrics_lock' = LockAfterRead
    /\ loop' = "free"
    /\ UNCHANGED <<latest_metrics, collection_task, subscribers, handler, api_history,
                   stores, tasks_alive, response, histVars, chartVars, colVars>>

\* send_json is over: the payload is sent and the connection sleeps 1 s, or
\* the client is gone and the handler ends
Send(s) ==
    /\ loop = "free"
    /\ connections[s].pc = "sending"
    /\ \/ connections' = [connections EXCEPT ![s].sent = connections[s].metrics,
                                             ![s].pc = "sleeping"]
       \/ connections' = [connections EXCEPT ![s] = NoConn]
    /\ UNCHANGED <<latest_metrics, metrics_lock, collection_task, subscribers, handler,
                   loop, api_history, stores, tasks_alive, response, histVars, chartVars,
                   colVars>>

\* asyncio.sleep of a connection is over
Wake(s) ==
    /\ connections[s].pc = "sleeping"
    /\ connections' = [connections EXCEPT ![s].pc = "polling"]
    /\ UNCHANGED <<latest_metrics, metrics_lock, collection_task, subscribers, handler,
                   loop, api_history, stores, tasks_alive, response, histVars, chartVars,
                   colVars>>

NextFeed ==
    \/ \E s \in Subscribers : Open(s) \/ Acquire(s) \/ Read(s) \/ Send(s) \/ Wake(s)
    \/ CollectorStart
    \/ WorkerCollect
    \/ CollectorAcquire
    \/ CollectorStore
    \/ CollectorAppend
    \/ CollectorFailed
    \/ CollectorWake

SpecFeed == InitFeed /\ [][NextFeed]_vars

(* C23: a subscriber holds the metrics lock only while it copies the
   latest-sample reference, never while it sends or sleeps; so the producer's
   attempt to store a sample is never blocked by a slow or stalled
   subscriber, and no subscriber is blocked by another subscriber's send. *)
C23_LockOnlyForCopy ==
    /\ metrics_lock = "subscriber" => \E s \in Subscribers : connections[s].pc = "locked"
    /\ (collection_task.pc = "returned" /\ loop = "free") => ENABLED CollectorAcquire
    /\ \A s \in Subscribers :
          (connections[s].pc = "polling" /\ loop = "free") => ENABLED Acquire(s)

C23_Witness ==
    /\ \E s, t \in Subscribers :
          connections[s].pc = "sending" /\ connections[t].pc = "polling"
    /\ collection_task.pc = "returned"
    /\ loop = "free"
    /\ metrics_lock = "free"

\* a payload is sent: the ghost of some connection takes the sent sample
C25_SendStep(s) ==
    /\ connections[s].pc = "sending"
    /\ connections'[s].pc = "sleeping"

(* C25: a subscriber never sends a payload before the producer has stored a
   first sample; once the cell holds a sample it never becomes empty again;
   every payload is built from the sample that was in the cell at the
   subscriber's most recent read, so a subscriber never sends a sample older
   than one it already sent. *)
C25_Feed ==
    /\ [](\A s \in Subscribers :
             /\ connections[s].pc = "sending" => connections[s].metrics > 0
             /\ connections[s].sent <= connections[s].metrics
             /\ connections[s].metrics <= Cell)
    /\ [](stores > 0 <=> ~IsNone(latest_metrics))
    /\ [][/\ ~IsNone(latest_metrics) => ~IsNone(latest_metrics')
          /\ \A s \in Subscribers :
                C25_SendStep(s) =>
                    /\ connections[s].metrics > 0
                    /\ connections'[s].sent = connections[s].metrics
                    /\ connections'[s].sent >= connections[s].sent]_vars

C25_Witness ==
    \E s \in Subscribers :
        /\ connections[s].pc = "sending"
        /\ connections[s].sent = 1
        /\ connections[s].metrics > 1

----------------------------------------------------------------------------
(* The collectors: AppleAPICollector (apple_api.py) and MetricsCollector
   (collector.py).  A network rate, a float quotient, is kept as the pair of
   its numerator (bytes) and its positive denominator (seconds); 0.0 is 0/1. *)

AppleFields == {"cpu_power", "gpu_power", "ane_power", "dram_power", "system_power",
                "gpu_usage", "gpu_freq_mhz", "ane_usage"}

\* AppleMetrics(): every field has the default 0.0
AppleMetrics == [f \in AppleFields |-> 0]

\* the fields the patterns of _parse_powermetrics_text look for
ParsedFields == {"cpu_power", "gpu_power", "ane_power", "gpu_freq_mhz"}

\* what the patterns find in a text: for every field a number or no match
PowerVals == {3}
Found == [ParsedFields -> Opt(PowerVals)]
NothingFound == [f \in ParsedFields |-> None]

\* _parse_powermetrics_text: a matched field is set, the others keep 0.0
ParsePowermetricsText(found) ==
    [f \in AppleFields |->
        IF f \in ParsedFields /\ ~IsNone(found[f]) THEN found[f][1] ELSE AppleMetrics[f]]

\* how the powermetrics subprocess ends: the timeout expires, the binary is
\* not found, another exception, a non-zero exit that names sudo, another
\* non-zero exit, or exit 0 with a text; "none" when it is not run
Runs == {"timeout", "not_found", "error", "sudo", "failed", "ok"}
NotRun == "none"

\* _collect_via_powermetrics
CollectViaPowermetrics(run, found) ==
    IF run \in {"timeout", "not_found", "error"} THEN None
    ELSE IF run \in {"sudo", "failed"} THEN Some(AppleMetrics)
    ELSE Some(ParsePowermetricsText(found))

\* AppleAPICollector.__init__: powermetrics is looked for on Apple Silicon only
AppleAPICollector(is_apple_silicon, which_ok) ==
    [_is_apple_silicon |-> is_apple_silicon,
     _powermetrics_available |-> is_apple_silicon /\ which_ok]

\* AppleAPICollector.collect
AppleCollect(ac, run, found) ==
    IF ~ac._is_apple_silicon THEN None
    ELSE IF ac._powermetrics_available
         THEN LET result == CollectViaPowermetrics(run, found)
              IN  IF IsNone(result) THEN Some(AppleMetrics) ELSE result
    ELSE Some(AppleMetrics)

\* the rate (current - last) / time_delta, and the rate 0.0
Rate(diff, time_delta) == [num |-> diff, den |-> time_delta]
ZeroRate == Rate(0, 1)

\* the network rate of collect(): 0.0 on the first call and when no time passed
NetworkRate(current, last, current_time, last_time) ==
    IF IsNone(last_time) THEN ZeroRate
    ELSE IF current_time - last_time[1] > 0
         THEN Rate(current - last, current_time - last_time[1])
    ELSE ZeroRate

\* the sample collect() returns: the network fields, and the Apple Silicon
\* fields of apple_metrics or None for each of them
CollectMetrics(mc, net_io, current_time, apple_metrics) ==
    [f \in AppleFields |->
        IF IsNone(apple_metrics) THEN None ELSE Some(apple_metrics[1][f])]
    @@ [network_sent |-> net_io.bytes_sent,
        network_recv |-> net_io.bytes_recv,
        network_sent_rate |-> NetworkRate(net_io.bytes_sent, mc._last_network_sent,
                                          current_time, mc._last_time),
        network_recv_rate |-> NetworkRate(net_io.bytes_recv, mc._last_network_recv,
                                          current_time, mc._last_time)]

\* the collector after collect(): the counters and the time just read
CollectorAfter(mc, net_io, current_time) ==
    [mc EXCEPT !._last_network_sent = net_io.bytes_sent,
               !._last_network_recv = net_io.bytes_recv,
               !._last_time = Some(current_time)]

\* what psutil.net_io_counters() and time.time() can return
NetIo == [bytes_sent : 0..MaxBytes, bytes_recv : 0..MaxBytes]
Times == 0..MaxTime

\* MetricsCollector.__init__: the import of the Apple collector fails, or the
\* collector is made on this platform
InitCollector ==
    /\ metrics_collector \in
          {[NoCollector EXCEPT !._apple_collector = ac] :
              ac \in {None} \cup {Some(AppleAPICollector(a, w)) : a, w \in BOOLEAN}}
    /\ collected = NotCollected
    /\ max_size = 1
    /\ history = MetricsHistoryNew
    /\ log = [m \in Metrics |-> << >>]
    /\ ServiceIdle
    /\ ChartIdle

\* MetricsCollector.collect
Collect ==
    \E net_io \in NetIo, current_time \in Times, run \in Runs \cup {NotRun},
       found \in Found :
        /\ run # "ok" => found = NothingFound
        /\ run # NotRun <=>
              /\ ~IsNone(metrics_collector._apple_collector)
              /\ metrics_collector._apple_collector[1]._powermetrics_available
        /\ LET ac == metrics_collector._apple_collector
               apple_metrics == IF IsNone(ac) THEN None
                                ELSE AppleCollect(ac[1], run, found)
           IN  collected' =
                  [taken |-> TRUE,
                   metrics |-> CollectMetrics(metrics_collector, net_io, current_time,
                                              apple_metrics),
                   net_io |-> net_io,
                   current_time |-> current_time,
                   run |-> run,
                   measured |-> {f \in ParsedFields : ~IsNone(found[f])}]
        /\ metrics_collector' = CollectorAfter(metrics_collector, net_io, current_time)
        /\ UNCHANGED <<histVars, chartVars, srvVars, feedVars>>

NextCollector == Collect

SpecCollector == InitCollector /\ [][NextCollector]_vars

(* C21: when the acquisition of the Apple Silicon metrics fails (tool
   missing, permission denied, non-zero exit, timeout, other platform),
   collect() still returns a sample, and every power, GPU and ANE field that
   was not measured is None in it rather than 0.0. *)
C21_UnmeasuredIsNone ==
    collected.taken =>
        \A f \in AppleFields :
            f \notin collected.measured => IsNone(collected.metrics[f])

\* the part of C21 that holds: off Apple Silicon, and without the Apple
\* collector, every Apple Silicon field of the sample is None
C21_OtherPlatform ==
    (/\ collected.taken
     /\ \/ IsNone(metrics_collector._apple_collector)
        \/ ~metrics_collector._apple_collector[1]._is_apple_silicon)
        => \A f \in AppleFields : IsNone(collected.metrics[f])

\* the rate the claim expects of a collect() that read `current` at time
\* collected'.current_time: 0 for the first collect() and when no time has
\* passed, else the quotient of the two differences
ExpectedRate(current, previous) ==
    IF ~collected.taken THEN ZeroRate
    ELSE IF collected'.current_time - collected.current_time > 0
         THEN Rate(current - previous,
                   collected'.current_time - collected.current_time)
    ELSE ZeroRate

\* a collect() reports the expected rates and stores what it has just read
RatesAndLast ==
    /\ collected'.taken
    /\ collected'.metrics.network_sent_rate =
          ExpectedRate(collected'.net_io.bytes_sent,
                       IF collected.taken THEN collected.net_io.bytes_sent ELSE 0)
    /\ collected'.metrics.network_recv_rate =
          ExpectedRate(collected'.net_io.bytes_recv,
                       IF collected.taken THEN collected.net_io.bytes_recv ELSE 0)
    /\ metrics_collector'._last_network_sent = collected'.net_io.bytes_sent
    /\ metrics_collector'._last_network_recv = collected'.net_io.bytes_recv
    /\ metrics_collector'._last_time = Some(collected'.current_time)

\* both reported rates are at least 0
RatesNotNegative ==
    /\ collected'.metrics.network_sent_rate.num >= 0
    /\ collected'.metrics.network_sent_rate.den > 0
    /\ collected'.metrics.network_recv_rate.num >= 0
    /\ collected'.metrics.network_recv_rate.den > 0

(* C29: the first collect() of a MetricsCollector reports both network rates
   as 0, and every later collect() reports (current counter - counter read by
   the previous collect) / elapsed time, or 0 when the elapsed time is not
   positive; after every collect() the stored last counters and timestamp
   equal the values just read, and a reported rate is never negative. *)
C29_NetworkRates == [][RatesAndLast /\ RatesNotNegative]_vars

\* the part of C29 that holds: the rates are the quotients of the claim and
\* the stored values are the ones just read; a rate is below 0 only when a
\* counter went down between two collect() calls
C29_RatesAndLast ==
    [][/\ RatesAndLast
       /\ (/\ collected.taken
           /\ collected'.net_io.bytes_sent >= collected.net_io.bytes_sent
           /\ collected'.net_io.bytes_recv >= collected.net_io.bytes_recv)
              => RatesNotNegative
       /\ ~collected.taken => RatesNotNegative]_vars

----------------------------------------------------------------------------
(* Calls with width and height keyword arguments, as reproduce_issue.py
   makes them *)

\* render(values, show_y_axis=..., width=w, height=h) and
\* render_network_split(sent, recv, show_y_axis=..., width=w, height=h); an
\* argument that is not passed is None
DimCall(op, axis, w, h) ==
    [op |-> op, min_value |-> None, max_value |-> None, show_y_axis |-> axis,
     width |-> w, height |-> h]

DimCalls ==
    {DimCall(op, axis, w, h) : op \in {"render", "network_split"}, axis \in BOOLEAN,
                               w \in Opt(1..MaxWidth), h \in Opt(1..MaxHeight)}

\* render has the parameters values, min_value, max_value and show_y_axis:
\* a width or height keyword is a TypeError
RenderKw(r, vals, c) ==
    IF ~IsNone(c.width) \/ ~IsNone(c.height) THEN Raise("TypeError")
    ELSE Render(r, vals, c.min_value, c.max_value, c.show_y_axis)

\* render_network_split has the parameters sent_values, recv_values, width
\* and show_y_axis: a height keyword is a TypeError
RenderNetworkSplitKw(r, sent_values, recv_values, c) ==
    IF ~IsNone(c.height) THEN Raise("TypeError")
    ELSE RenderNetworkSplit(r, sent_values, recv_values, c.width, c.show_y_axis)

InitDims ==
    /\ renderer \in {ChartRenderer(w, h, TRUE) : w \in 1..MaxWidth, h \in 1..MaxHeight}
    /\ values \in SeqsUpTo({0, One}, ChartLen) \ {<< >>}
    /\ values2 = values
    /\ values3 = << >>
    /\ call = NoCall
    /\ out = NoOut
    /\ memo = NoMemo
    /\ HistoryIdle

CallDims ==
    /\ out = NoOut
    /\ \E c \in DimCalls :
          /\ call' = c
          /\ out' = IF c.op = "render" THEN RenderKw(renderer, values, c)
                    ELSE RenderNetworkSplitKw(renderer, Bytes(values), Bytes(values2), c)
    /\ UNCHANGED <<renderer, values, values2, values3, memo, histVars, srvVars, colVars, feedVars>>

NextDims == CallDims

SpecDims == InitDims /\ [][NextDims]_vars

\* the length of the longest line of a text
WidestLine(lines) == SeqMax([i \in 1..Len(lines) |-> Len(lines[i])])

(* C22: render and render_network_split accept per-call width and height
   arguments that override the constructor's, and with show_y_axis=True the
   returned text has exactly the requested height lines and a widest line of
   at least the requested width. *)
C22_RequestedDimensions ==
    (/\ out # NoOut
     /\ call.show_y_axis
     /\ ~IsNone(call.width)
     /\ ~IsNone(call.height))
        => /\ out.err = "none"
           /\ Len(out.lines) = call.height[1]
           /\ WidestLine(out.lines) >= call.width[1]

\* what the calls give without the keywords, for the constructor's width and
\* height: render has height + 2 lines (the two label lines are lines of
\* their own), render_network_split height + 3 lines at an even height (the
\* label lines and the separator), and both are at least width wide
C22_ConstructorDimensions ==
    (/\ out # NoOut
     /\ call.show_y_axis
     /\ IsNone(call.width)
     /\ IsNone(call.height))
        => /\ out.err = "none"
           /\ WidestLine(out.lines) >= renderer.width
           /\ call.op = "render" => Len(out.lines) = renderer.height + 2
           /\ (call.op = "network_split" /\ renderer.height % 2 = 0)
                 => Len(out.lines) = renderer.height + 3

----------------------------------------------------------------------------
(* The P-core and E-core figures of the WebSocket payload: the two versions
   of websocket_metrics (backend/api/websocket.py, yamon/api/websocket.py).
   A figure, a float quotient, is kept as numerator and positive
   denominator. *)

Frac(num, den) == [num |-> num, den |-> den]
FracAdd(a, b) == Frac(a.num * b.den + b.num * a.den, a.den * b.den)
FracEq(a, b) == a.num * b.den = b.num * a.den

RECURSIVE Sum(_)
Sum(s) == IF s = << >> THEN 0 ELSE s[1] + Sum(Tail(s))

\* the P-core count chosen from cpu_count
PCoreCount(cpu_count) ==
    IF cpu_count = 8 THEN 4
    ELSE IF cpu_count = 10 THEN 8
    ELSE IF cpu_count = 12 THEN 8
    ELSE IF cpu_count = 16 THEN 12
    ELSE cpu_count \div 2

\* the E-core count chosen from cpu_count
ECoreCount(cpu_count) ==
    IF cpu_count = 8 THEN 4
    ELSE IF cpu_count = 10 THEN 2
    ELSE IF cpu_count = 12 THEN 4
    ELSE IF cpu_count = 16 THEN 4
    ELSE cpu_count - PCoreCount(cpu_count)

\* cpu_per_core[:p_core_count] if len(cpu_per_core) >= p_core_count else []
PCores(cpu_per_core, p_core_count) ==
    IF Len(cpu_per_core) >= p_core_count THEN SubSeq(cpu_per_core, 1, p_core_count)
    ELSE << >>

\* cpu_per_core[p_core_count:] if len(cpu_per_core) > p_core_count else []
ECores(cpu_per_core, p_core_count) ==
    IF Len(cpu_per_core) > p_core_count
    THEN SubSeq(cpu_per_core, p_core_count + 1, Len(cpu_per_core))
    ELSE << >>

Payload(cpu_p_percent, cpu_e_percent) ==
    [err |-> "none", cpu_p_percent |-> cpu_p_percent, cpu_e_percent |-> cpu_e_percent]

\* backend/api/websocket.py: the shares of the summed usage, in percent
ShareOfActive(cpu_count, cpu_per_core) ==
    LET p_total_usage == Sum(PCores(cpu_per_core, PCoreCount(cpu_count)))
        e_total_usage == Sum(ECores(cpu_per_core, PCoreCount(cpu_count)))
        total_usage == p_total_usage + e_total_usage
    IN  IF total_usage > 0
        THEN Payload(Frac(p_total_usage * 100, total_usage),
                     Frac(e_total_usage * 100, total_usage))
        ELSE Payload(Frac(0, 1), Frac(0, 1))

\* yamon/api/websocket.py: the contributions to the average usage
ContributionToTotal(cpu_count, cpu_per_core) ==
    IF cpu_count > 0
    THEN Payload(Frac(Sum(PCores(cpu_per_core, PCoreCount(cpu_count))), cpu_count),
                 Frac(Sum(ECores(cpu_per_core, PCoreCount(cpu_count))), cpu_count))
    ELSE Payload(Frac(0, 1), Frac(0, 1))

\* the samples: cpu_count logical CPUs and a list of per-core readings
CoreUsage == {0, 50}
CoreSamples ==
    {[taken |-> TRUE, cpu_count |-> n, cpu_per_core |-> l] :
        n \in 0..(2 * MaxCores), l \in SeqsUpTo(CoreUsage, MaxCores)}

InitCores ==
    /\ collected \in CoreSamples
    /\ metrics_collector = NoCollector
    /\ max_size = 1
    /\ history = MetricsHistoryNew
    /\ log = [m \in Metrics |-> << >>]
    /\ ServiceIdle
    /\ ChartIdle

\* the payload of backend/api/websocket.py for the sample
BackendPayload ==
    /\ out = NoOut
    /\ call' = [NoCall EXCEPT !.op = "backend"]
    /\ out' = ShareOfActive(collected.cpu_count, collected.cpu_per_core)
    /\ UNCHANGED <<renderer, values, values2, values3, memo, histVars, srvVars, colVars,
                   feedVars>>

\* the payload of yamon/api/websocket.py for the sample
YamonPayload ==
    /\ out = NoOut
    /\ call' = [NoCall EXCEPT !.op = "yamon"]
    /\ out' = ContributionToTotal(collected.cpu_count, collected.cpu_per_core)
    /\ UNCHANGED <<renderer, values, values2, values3, memo, histVars, srvVars, colVars,
                   feedVars>>

NextCores == BackendPayload \/ YamonPayload

SpecCores == InitCores /\ [][NextCores]_vars

\* the counts chosen from cpu_count sum to cpu_count
CoreCountsSum ==
    PCoreCount(collected.cpu_count) + ECoreCount(collected.cpu_count) = collected.cpu_count

\* the two groups are the list, cut in two
CoresPartition ==
    PCores(collected.cpu_per_core, PCoreCount(collected.cpu_count))
        \o ECores(collected.cpu_per_core, PCoreCount(collected.cpu_count))
            = collected.cpu_per_core

(* C26: in backend/api/websocket.py, for every sample in which at least one
   core has non-zero usage cpu_p_percent + cpu_e_percent equals 100, and both
   are 0 only when no core has any usage; the P-core and E-core counts
   chosen from cpu_count sum to cpu_count and the two groups partition
   cpu_per_core. *)
C26_ShareOfActive ==
    call.op = "backend" =>
        /\ Sum(collected.cpu_per_core) > 0 =>
              FracEq(FracAdd(out.cpu_p_percent, out.cpu_e_percent), Frac(100, 1))
        /\ (out.cpu_p_percent.num = 0 /\ out.cpu_e_percent.num = 0)
              => Sum(collected.cpu_per_core) = 0
        /\ CoreCountsSum
        /\ CoresPartition

\* the part of C26 that holds: for a list with a reading for each of the
\* cpu_count CPUs
C26_FullList ==
    (call.op = "backend" /\ Len(collected.cpu_per_core) = collected.cpu_count)
        => /\ Sum(collected.cpu_per_core) > 0 =>
                 FracEq(FracAdd(out.cpu_p_percent, out.cpu_e_percent), Frac(100, 1))
           /\ (out.cpu_p_percent.num = 0 /\ out.cpu_e_percent.num = 0)
                 => Sum(collected.cpu_per_core) = 0
           /\ CoreCountsSum
           /\ CoresPartition

(* C27: in yamon/api/websocket.py, for every sample with cpu_count > 0,
   cpu_p_percent + cpu_e_percent equals sum(cpu_per_core) / cpu_count, for
   every length of cpu_per_core and every cpu_count. *)
C27_ContributionToTotal ==
    (call.op = "yamon" /\ collected.cpu_count > 0) =>
        FracEq(FracAdd(out.cpu_p_percent, out.cpu_e_percent),
               Frac(Sum(collected.cpu_per_core), collected.cpu_count))

\* the part of C27 that holds: for a list of at least p_core_count readings
C27_LongEnough ==
    (/\ call.op = "yamon"
     /\ collected.cpu_count > 0
     /\ Len(collected.cpu_per_core) >= PCoreCount(collected.cpu_count))
        => FracEq(FracAdd(out.cpu_p_percent, out.cpu_e_percent),
                  Frac(Sum(collected.cpu_per_core), collected.cpu_count))

----------------------------------------------------------------------------
(* GET /history beside the WebSocket collector: api/metrics.py and
   api/websocket.py each make their own MetricsHistory *)

\* the JSON body of GET /history
Response(body) == [sent |-> TRUE, body |-> body]

\* GET /history: the values of the series of the history of api/metrics.py;
\* the handler has no await and runs in one turn of the event loop
GetHistoryRequest ==
    /\ loop = "free"
    /\ response' = Response(GetHistory(api_history))
    /\ UNCHANGED <<connections, srvVars, histVars, chartVars, colVars>>

NextApi ==
    \/ NextServer
    \/ GetHistoryRequest

SpecApi == InitServer /\ [][NextApi]_vars

\* the background collector appends its sample to the history GET /history reads
CollectorFeedsApi ==
    history' # history =>
        api_history' = AddMetrics(api_history, collection_task.metrics[1], max_size)

\* GET /metrics appends the sample it took to the history GET /history reads
GetMetricsFeedsApi ==
    api_history' # api_history =>
        /\ handler = "collecting"
        /\ handler' = "idle"
        /\ \E metrics \in ServerSamples :
              api_history' = AddMetrics(api_history, metrics, max_size)

\* GET /history answers with the series of its history and changes no history
GetHistoryReadsOnly ==
    response' # response =>
        /\ response' = Response(GetHistory(api_history))
        /\ UNCHANGED <<history, api_history>>

(* C30: the history returned by GET /history contains every sample collected
   by the service: each sample stored by the WebSocket background collector
   and each sample taken by GET /metrics is appended to the history that
   GET /history reads, and GET /history itself changes no history. *)
C30_HistoryComplete ==
    [][CollectorFeedsApi /\ GetMetricsFeedsApi /\ GetHistoryReadsOnly]_vars

\* the part of C30 that holds: GET /metrics feeds the history GET /history
\* reads and GET /history changes nothing, while an append of the background
\* collector leaves that history as it was
C30_ApiHistoryOnly ==
    [][/\ GetMetricsFeedsApi
       /\ GetHistoryReadsOnly
       /\ history' # history => api_history' = api_history]_vars

====
